---------------------------- MODULE Spec2Model ----------------------------
(***************************************************************************)
(* FaceVibe: the exercise session tracker, the App-level completion        *)
(* bookkeeping, the day streak of SocialStreaks, the resilience score of   *)
(* ResilienceTracker and the stress-game session engine (first revision of *)
(* StressGame.tsx), modelled as state machines over the React state, the   *)
(* browser key-value stores and the millisecond clock.                     *)
(*                                                                         *)
(* Conventions                                                             *)
(*  - `now` is Date.now() in milliseconds.  Calendar dates are the UTC     *)
(*    dates of toISOString(): the date of instant t is t \div MsPerDay and *)
(*    new Date('YYYY-MM-DD') is the instant d * MsPerDay.  Local-time      *)
(*    setDate(getDate() - k) is k * 24h earlier (no daylight-saving jump). *)
(*  - A React effect is its own action; it runs after the handler whose    *)
(*    state change made it pending and before any further event is taken   *)
(*    (React flushes pending passive effects before the next update).      *)
(*  - A stress value s stands for s / StressUnit (35 of 50 is 0.7).        *)
(*  - A timer is the instant it is due; the clock of the stress game moves *)
(*    from one due instant to the next, and frames and clicks arrive at    *)
(*    those instants, before or after the timers due there.                *)
(***************************************************************************)
EXTENDS Integers, Naturals, Sequences, FiniteSets, TLC

VARIABLES
    now,                  \* Date.now(), ms
    op,                   \* name of the last handler, effect or timer that ran
    \* ---- localStorage
    ls_last_exercise_date,\* 'last_exercise_date': a date or NoItem
    ls_my_streak,         \* 'my_streak': a StreakData record or NoItem
    ls_resilience_data,   \* 'resilience_data': a series of ResilienceData
    \* ---- App.tsx state
    exerciseCount,
    exerciseDoneToday,
    currentExercise,
    completedExercises,
    activeTab,
    appStressLevel,       \* App's stressLevel (the game below has its own)
    \* ---- ResilienceTracker.tsx state
    resilienceScore,
    weeklyData,
    resilienceEffectPending, \* the [exerciseCount, stress] effect has not run
    prevResilienceData,   \* history: the series the resilience effect read last
    \* ---- SocialStreaks.tsx state
    myStreak,
    streakEffectPending,  \* the [exerciseDoneToday] effect has not run yet
    prevStreakData,       \* history: the record updateMyStreak read last
    \* ---- ExerciseTracker.tsx state
    selectedExercise,
    successStreak,
    lastExerciseResult,
    feedback,
    showFeedback,
    resultEffectPending,  \* the [lastExerciseResult] effect has not run yet
    streakChanged,        \* the [successStreak, ...] effect has not run yet
    handlerExercise,      \* selectedExercise captured by the registered onResults
    streakCompleteCalls,  \* history: onExerciseComplete calls of the streak effect
    successRun,           \* history: successful evaluations in a row
    streakBefore,         \* history: successStreak before the last result effect
    actuallyCompleted,    \* history: exercises selected when a completion fired
    \* ---- App.tsx landmark state
    landmarks,
    faceVisible,
    frameCount,           \* history: frames delivered by landmarkUpdate
    \* ---- StressGame.tsx state
    stressLevel,
    activeGame,
    gameStartTime,
    gameProgress,
    gameSuccess,
    showModal,
    requirementsMet,
    stressHistory,
    lastGameEndTime,
    \* ---- StressGame.tsx timers and effects
    stressCheckDue,       \* next tick of the stress check interval
    progressTimerArmedAt, \* when the progress interval was set
    gameTimerDue,         \* due time of the game timer
    closeTimers,          \* due times of the scheduled closeGame calls
    resetTimers,          \* due times of the scheduled resets of closeGame
    gamePending,          \* effects of StressGame that have not run yet
    lastCloseTime,        \* history: when the mounted component last ran closeGame
    lastLaunchTime,       \* history: when it last ran triggerGame
    sampleCount,          \* history: stress samples it has appended
    scratch,              \* sessionStorage: the game-state keys that hold a value
    validatorRuns,        \* history: validator runs of the active game
    validatorStartTime,   \* the gameStartTime the active game's validators see
    chinMoved,            \* history: the last validator run was a run of Jaw
                          \* Jiggle, after the game's first, on a chin more
                          \* than 0.02 away from where the run before saw it
    frameDue,             \* when the camera delivers its next frame
    framePeriod,          \* the time between two frames, 0: no steady stream
    \* ---- FacialAnalysis.tsx: one call of a function of a frame
    probeLandmarks,       \* the landmarks argument
    probeRandom,          \* what Math.random() returns during the call
    probeResult,          \* the value returned, <<>> before the call
    \* ---- faults
    ls_damage,            \* localStorage: the keys whose string is not what
                          \* its reader expects, each with what is wrong
    storeFaulty,          \* localStorage.setItem throws (the quota is used up)
    consoleErrors,        \* the messages the storage handlers have written
                          \* with console.error
    raised                \* history: the functions that have thrown an
                          \* exception their own code did not catch

storeVars   == <<ls_last_exercise_date, ls_my_streak, ls_resilience_data>>
appVars     == <<exerciseCount, exerciseDoneToday, currentExercise,
                 completedExercises, activeTab, appStressLevel>>
resVars     == <<resilienceScore, weeklyData, resilienceEffectPending,
                 prevResilienceData>>
streakVars  == <<myStreak, streakEffectPending, prevStreakData>>
trackerVars == <<selectedExercise, successStreak, lastExerciseResult, feedback,
                 showFeedback, resultEffectPending, streakChanged,
                 handlerExercise, streakCompleteCalls, successRun,
                 streakBefore, actuallyCompleted>>

engineVars  == <<stressLevel, activeGame, gameStartTime, gameProgress,
                 gameSuccess, showModal, requirementsMet, stressHistory,
                 lastGameEndTime>>
gameTimers  == <<stressCheckDue, progressTimerArmedAt, gameTimerDue,
                 closeTimers, resetTimers>>
sampleVars  == <<sampleCount>>
scratchVars == <<scratch, validatorRuns, validatorStartTime, chinMoved>>
frameTimer  == <<frameDue, framePeriod>>
gameVars    == <<landmarks, faceVisible, frameCount, engineVars, gameTimers,
                 gamePending, lastCloseTime, lastLaunchTime, sampleVars,
                 scratchVars, frameTimer>>

probeVars   == <<probeLandmarks, probeRandom, probeResult>>
faultVars   == <<ls_damage, storeFaulty, raised, consoleErrors>>

vars == <<now, op, storeVars, appVars, resVars, streakVars, trackerVars,
          gameVars, probeVars, faultVars>>

---------------------------------------------------------------------------
(* Bounds of the model *)

MaxDay == 4             \* the clock stops at the end of this day
MaxCalls == 2           \* history counters stop counting here
NumChoices == 2         \* exercises offered to the selection in SpecTracker
MaxFrames == 2          \* frames delivered in SpecGame
MaxFrameMs == 16000     \* ... all of them this early in the session
MaxSessionMs == 80000   \* SpecGame's clock stops this long after the start

---------------------------------------------------------------------------
(* Dates *)

MsPerDay == 24 * 60 * 60 * 1000
HalfDay == 12 * 60 * 60 * 1000

\* A stored item is a sequence: <<>> is getItem's null, <<v>> holds the value
\* that JSON.parse gives back for what JSON.stringify wrote.
NoItem == <<>>

\* what can be wrong with a stored string
ResilienceCorrupt == "resilience_data: JSON.parse throws"
ResilienceNotArray == "resilience_data: not an array"
StreakCorrupt == "my_streak: JSON.parse throws"
ResilienceDamage == {ResilienceCorrupt, ResilienceNotArray}

\* what the catch blocks of the two storage handlers write with console.error
ResilienceParseError == "Error parsing resilience data from localStorage:"
StreakUpdateError == "Error updating streak:"
Item(v) == <<v>>

EmptyDate == -1         \* the empty string '' as lastExerciseDate

Min(a, b) == IF a < b THEN a ELSE b
Max(a, b) == IF a > b THEN a ELSE b

\* new Date(t).toISOString().split('T')[0]
ISODate(t) == t \div MsPerDay

\* new Date('YYYY-MM-DD').getTime()
ParseDate(d) == d * MsPerDay

\* data.slice(-n)
SliceLast(data, n) ==
    IF Len(data) > n THEN SubSeq(data, Len(data) - n + 1, Len(data)) ELSE data

\* the weight of stress in the resilience score; a stress value s stands for
\* s / StressUnit, so that weighted stress is a whole number
StressWeight == 50
StressUnit == StressWeight

StartDay == 1
SessionStart == StartDay * MsPerDay + HalfDay

---------------------------------------------------------------------------
(* The ten exercises (ExerciseTracker.tsx, `exercises`) *)

ExerciseNames ==
    << "Jaw Dropper", "Brow Lifter", "Cheek Puffer", "Eye Winker",
       "Smiley Stretch", "Nose Scruncher", "Lip Pucker", "Chin Jutter",
       "Forehead Smoother", "Tongue Twister" >>

AllExercises == { ExerciseNames[i] : i \in 1..Len(ExerciseNames) }

\* the exercises the selection is drawn from in SpecTracker and SpecStreak
ChoiceExercises == { ExerciseNames[i] : i \in 1..Min(NumChoices, Len(ExerciseNames)) }

InitialExercise == "Jaw Dropper"      \* useState<ExerciseName>("Jaw Dropper")

successMessage(e) == <<e, "success">>
failureMessage(e) == <<e, "failure">>
NoFeedback == <<"", "">>              \* the empty feedback string
NoResult == <<>>                      \* lastExerciseResult === null

---------------------------------------------------------------------------
(* StressGame.tsx (first component of the file) and the landmark state of   *)
(* App.tsx that feeds it.                                                    *)
(*                                                                         *)
(* A frame of landmarks is abstracted to what the engine reads from it: the *)
(* value calculateStressLevel gives and whether the frame satisfies a       *)
(* game's validator.  Every timer is a due time; the clock moves from one   *)
(* due time to the next and never past a timer that is due.  The progress   *)
(* interval ticks every 50 ms: its ticks before the one that reaches 100%   *)
(* only set gameProgress and are folded into the clock step.                *)

NoLandmarks == <<>>                          \* landmarks === null
Frame(s, m) == <<[stress |-> s, meets |-> m]>>

NoGame == <<>>                               \* activeGame === null
NoSuccess == <<>>                            \* gameSuccess === null
NoTimer == 0 - 1                             \* a timer ref that is null
NoTime == 0 - 1                              \* gameStartTime === null

\* the ten games: id and durationSecs
games ==
    << [id |-> "smile-snipe",      durationSecs |-> 30],
       [id |-> "brow-chill",       durationSecs |-> 30],
       [id |-> "breath-blast",     durationSecs |-> 30],
       [id |-> "eye-rest",         durationSecs |-> 5],
       [id |-> "jaw-jiggle",       durationSecs |-> 30],
       [id |-> "positive-reframe", durationSecs |-> 30],
       [id |-> "cheek-drop",       durationSecs |-> 30],
       [id |-> "lip-loosen",       durationSecs |-> 30],
       [id |-> "nose-flare",       durationSecs |-> 30],
       [id |-> "face-freeze",      durationSecs |-> 15] >>

GAME_COOLDOWN_MS == 60000
StressCheckMs == 2000
ProgressTickMs == 50
ResultDwellMs == 3000
ResetDelayMs == 500
HistoryCap == 30
TrendWindow == 5

\* 0.7, the stress above which a game may start
HighStress == (7 * StressUnit) \div 10

\* calculateStressLevel(landmarks)
calculateStressLevel(lm) ==
    IF lm = NoLandmarks THEN StressUnit \div 2 ELSE lm[1].stress

\* activeGame.validate(landmarks)
validate(game, lm) == lm[1].meets

\* the sessionStorage keys of the games' validators
GameStateKeys ==
    {"prevBrowPos", "prevJawPos", "jawJiggleCount", "prevNostrilPos",
     "nostrilFlareCount", "prevFacePos"}

\* what the tab's sessionStorage may hold when the page is loaded
TabStores == {{}, {"prevJawPos", "jawJiggleCount"}, GameStateKeys}

\* variant that removes nothing (C20 must fail with it)
keepGameState(store) == store

\* the six removeItem calls of the mount effect and of triggerGame
removeGameState(store) == store \ GameStateKeys

\* variant in which the validators see the start time of the game they
\* belong to (C19 must fail with it)
ClosureStartTimeLive(renderStartTime, launchTime) == launchTime

\* games[i].validate closes over the gameStartTime of the render whose
\* trigger effect hands games[i] to triggerGame, not over the value
\* triggerGame sets
ClosureStartTime(renderStartTime, launchTime) == renderStartTime

\* the keys that hold a value after a run of game.validate whose closure
\* sees closureStart; moved: the face moved enough since the stored position
ScratchAfterValidate(game, closureStart, store, moved) ==
    IF closureStart = NoTime THEN store
    ELSE IF game.id = "jaw-jiggle"
    THEN store \cup {"prevJawPos"}
           \cup (IF "prevJawPos" \in store /\ moved
                 THEN {"jawJiggleCount"} ELSE {})
    ELSE IF game.id = "nose-flare"
    THEN store \cup {"prevNostrilPos"}
           \cup (IF "prevNostrilPos" \in store /\ moved
                 THEN {"nostrilFlareCount"} ELSE {})
    ELSE IF game.id = "face-freeze"
    THEN store \cup {"prevFacePos"}
    ELSE store

RECURSIVE SumSeq(_)
SumSeq(s) == IF s = <<>> THEN 0 ELSE Head(s) + SumSeq(Tail(s))

\* variant that keeps the first 30 readings (C16 must fail with it)
HistoryAfterKeepOldest(prev, newStressLevel) ==
    LET updated == Append(prev, newStressLevel)
    IN IF Len(updated) > HistoryCap THEN SubSeq(updated, 1, HistoryCap)
       ELSE updated

\* [...prev, newStressLevel], cut to the last 30 readings
HistoryAfter(prev, newStressLevel) ==
    SliceLast(Append(prev, newStressLevel), HistoryCap)

DurationMs(game) == game.durationSecs * 1000

\* variant that never waits for the cooldown (C3 must fail with it)
CooldownElapsedAlways(t, last) == TRUE

\* now - lastGameEndTime > GAME_COOLDOWN_MS
CooldownElapsed(t, last) == t - last > GAME_COOLDOWN_MS

\* variant that ignores the history (C4 must fail with it)
TrendHighAlways(history) == TRUE

\* recentStress.length >= 5 and its average above 0.7
TrendHigh(history) ==
    LET recentStress == SliceLast(history, TrendWindow)
    IN /\ Len(recentStress) >= TrendWindow
       /\ SumSeq(recentStress) > HighStress * Len(recentStress)

\* stressLevel > 0.7 && !activeGame && faceVisible && cooldownElapsed
TriggerCondition(level, game, visible, t, last) ==
    /\ level > HighStress
    /\ game = NoGame
    /\ visible
    /\ CooldownElapsed(t, last)

\* the effects of StressGame in the order they are declared
EffectOrder == <<"stressCheck", "trigger", "progress", "validate">>

EffectRank(e) == CHOOSE i \in 1..Len(EffectOrder) : EffectOrder[i] = e

\* effect e is the next one to run
EffectTurn(e) ==
    /\ e \in gamePending
    /\ \A f \in gamePending : EffectRank(e) <= EffectRank(f)
    /\ ~resultEffectPending
    /\ ~streakChanged
    /\ activeTab = "exercise"

\* the tick of the progress interval that finds progress >= 100
ProgressDue ==
    IF progressTimerArmedAt = NoTimer \/ activeGame = NoGame
    THEN NoTimer
    ELSE LET endTime == gameStartTime + DurationMs(activeGame[1])
             toGo == endTime - progressTimerArmedAt
             ticks == Max(1, (toGo + ProgressTickMs - 1) \div ProgressTickMs)
         IN progressTimerArmedAt + ticks * ProgressTickMs

\* what the last tick of the progress interval at or before t set gameProgress to
ProgressAt(t) ==
    LET ticks == (t - progressTimerArmedAt) \div ProgressTickMs
        elapsed == progressTimerArmedAt + ticks * ProgressTickMs - gameStartTime
    IN IF progressTimerArmedAt = NoTimer \/ activeGame = NoGame \/ ticks < 1
       THEN gameProgress
       ELSE Min(100, (elapsed * 100) \div DurationMs(activeGame[1]))

\* the due times of all armed timers
DueTimes ==
    ({stressCheckDue, ProgressDue, gameTimerDue, frameDue} \ {NoTimer})
        \cup closeTimers \cup resetTimers

\* the state of a freshly mounted StressGame once its mount effects have run:
\* only the stress check interval is armed
GameMounted(t) ==
    /\ stressLevel' = 0
    /\ activeGame' = NoGame
    /\ gameStartTime' = NoTime
    /\ gameProgress' = 0
    /\ gameSuccess' = NoSuccess
    /\ showModal' = FALSE
    /\ requirementsMet' = FALSE
    /\ stressHistory' = <<>>
    /\ lastGameEndTime' = 0
    /\ stressCheckDue' = t + StressCheckMs
    /\ progressTimerArmedAt' = NoTimer
    /\ gameTimerDue' = NoTimer
    /\ closeTimers' = {}
    /\ resetTimers' = {}
    /\ gamePending' = {}
    /\ lastCloseTime' = NoTime
    /\ lastLaunchTime' = NoTime
    /\ sampleCount' = 0
    /\ scratch' = removeGameState(scratch)
    /\ validatorRuns' = 0
    /\ validatorStartTime' = NoTime
    /\ chinMoved' = FALSE

\* StressGame is not rendered: its timers are cleared and the callbacks still
\* scheduled find no component to update
GameUnmounted ==
    /\ stressCheckDue' = NoTimer
    /\ progressTimerArmedAt' = NoTimer
    /\ gameTimerDue' = NoTimer
    /\ closeTimers' = {}
    /\ resetTimers' = {}
    /\ gamePending' = {}
    /\ UNCHANGED <<stressLevel, activeGame, gameStartTime, gameProgress,
                   gameSuccess, showModal, requirementsMet, stressHistory,
                   lastGameEndTime, lastCloseTime, lastLaunchTime,
                   sampleVars, scratchVars>>

---------------------------------------------------------------------------
(* App.tsx *)

DailyCap == 10

\* variant without the cap of 10 (C9 must fail with it)
CountAfterCompleteUnclamped(prev, exercise, count) ==
    IF exercise \notin prev
    THEN Cardinality(prev \cup {exercise})
    ELSE count

\* the value of exerciseCount after handleExerciseComplete
CountAfterComplete(prev, exercise, count) ==
    IF exercise \notin prev
    THEN Min(DailyCap, Cardinality(prev \cup {exercise}))
    ELSE count

handleExerciseComplete ==
    /\ completedExercises' = completedExercises \cup {currentExercise}
    /\ exerciseCount' =
           CountAfterComplete(completedExercises, currentExercise, exerciseCount)
    /\ exerciseDoneToday' = TRUE
    /\ IF storeFaulty
       THEN /\ raised' = raised \cup {"handleExerciseComplete"}
            /\ UNCHANGED ls_last_exercise_date
       ELSE /\ ls_last_exercise_date' = Item(ISODate(now))
            /\ UNCHANGED raised
    /\ actuallyCompleted' = actuallyCompleted \cup {selectedExercise}

handleExerciseSelection(exercise) ==
    currentExercise' = exercise

\* no effect of a committed render is waiting to run
Quiescent ==
    /\ ~streakEffectPending
    /\ ~resilienceEffectPending
    /\ ~resultEffectPending
    /\ ~streakChanged
    /\ gamePending = {}

\* the state of a freshly mounted ExerciseTracker
TrackerMounted ==
    /\ selectedExercise' = InitialExercise
    /\ successStreak' = 0
    /\ lastExerciseResult' = NoResult
    /\ feedback' = NoFeedback
    /\ showFeedback' = FALSE
    /\ resultEffectPending' = FALSE
    /\ streakChanged' = FALSE
    /\ handlerExercise' = InitialExercise
    /\ successRun' = 0
    /\ streakBefore' = 0

\* the tab bar: the exercise tab renders ExerciseTracker (and StressGame), the
\* progress tab renders ResilienceTracker and SocialStreaks; the other tab's
\* components are unmounted and mount afresh when their tab is shown again
setActiveTab(tab) ==
    /\ Quiescent
    /\ tab # activeTab
    /\ activeTab' = tab
    /\ op' = "setActiveTab"
    /\ UNCHANGED probeVars
    /\ UNCHANGED faultVars
    /\ UNCHANGED frameTimer
    /\ IF tab = "progress"
       THEN /\ myStreak' = 0
            /\ streakEffectPending' = TRUE
            /\ resilienceScore' = 0
            /\ weeklyData' = <<>>
            /\ resilienceEffectPending' = TRUE
            /\ GameUnmounted
            /\ UNCHANGED <<prevStreakData, prevResilienceData, trackerVars>>
       ELSE /\ TrackerMounted
            /\ GameMounted(now)
            /\ UNCHANGED <<resVars, streakVars, streakCompleteCalls,
                           actuallyCompleted>>
    /\ UNCHANGED <<now, storeVars, exerciseCount, exerciseDoneToday,
                   currentExercise, completedExercises, appStressLevel,
                   landmarks, faceVisible, frameCount>>

\* a page reload: every React state starts over, localStorage stays, and App's
\* mount effect reads 'last_exercise_date'
AppReload ==
    /\ Quiescent
    /\ op' = "reload"
    /\ UNCHANGED probeVars
    /\ UNCHANGED faultVars
    /\ UNCHANGED frameTimer
    /\ exerciseCount' = 0
    /\ currentExercise' = ""
    /\ completedExercises' = {}
    /\ activeTab' = "exercise"
    /\ exerciseDoneToday' = (ls_last_exercise_date = Item(ISODate(now)))
    /\ appStressLevel' = 0
    /\ resilienceScore' = 0
    /\ weeklyData' = <<>>
    /\ resilienceEffectPending' = FALSE
    /\ myStreak' = 0
    /\ streakEffectPending' = FALSE
    /\ TrackerMounted
    /\ streakCompleteCalls' = 0
    /\ actuallyCompleted' = {}
    /\ landmarks' = NoLandmarks
    /\ faceVisible' = FALSE
    /\ GameMounted(now)
    /\ UNCHANGED <<now, storeVars, prevStreakData, prevResilienceData,
                   frameCount>>

\* a long time passes with no face in view and no game on: to a later moment
\* of the same day, or to the very first millisecond of the next day.  The
\* stress check interval has ticked in between without finding a face.
ClockAdvance ==
    /\ Quiescent
    /\ ISODate(now) < MaxDay
    /\ ~faceVisible
    /\ activeGame = NoGame
    /\ closeTimers = {} /\ resetTimers = {}
    /\ op' = "clock"
    /\ UNCHANGED probeVars
    /\ UNCHANGED faultVars
    /\ UNCHANGED <<sampleVars, scratchVars, frameTimer>>
    /\ \E t \in { now + HalfDay, (ISODate(now) + 1) * MsPerDay } :
          /\ ISODate(t) <= ISODate(now) + 1
          /\ now' = t
          /\ stressCheckDue' = IF stressCheckDue = NoTimer
                               THEN NoTimer
                               ELSE stressCheckDue + (t - now)
    /\ UNCHANGED <<storeVars, appVars, resVars, streakVars, trackerVars,
                   landmarks, faceVisible, frameCount, engineVars,
                   progressTimerArmedAt, gameTimerDue, closeTimers,
                   resetTimers, gamePending, lastCloseTime, lastLaunchTime>>

---------------------------------------------------------------------------
(* SocialStreaks.tsx *)

\* let streakData: StreakData = { streak: 0, lastExerciseDate: '' }
DefaultStreakData == [streak |-> 0, lastExerciseDate |-> EmptyDate]

\* streakData.lastExerciseDate ? new Date(streakData.lastExerciseDate) : new Date(0)
LastDate(streakData) ==
    IF streakData.lastExerciseDate # EmptyDate
    THEN ParseDate(streakData.lastExerciseDate)
    ELSE 0

\* isToday, with today = the date of t
IsToday(streakData, t) ==
    ISODate(LastDate(streakData)) = ISODate(t)

\* isYesterday: yesterday = new Date(); yesterday.setDate(yesterday.getDate() - 1)
IsYesterday(streakData, t) ==
    ISODate(LastDate(streakData)) = ISODate(t - MsPerDay)

\* variant that keeps counting over a gap (C5 must fail with it)
StreakDataAfterDoneNoGapReset(streakData, t) ==
    IF IsToday(streakData, t)
    THEN streakData
    ELSE [streak |-> streakData.streak + 1, lastExerciseDate |-> ISODate(t)]

\* variant that counts today again (C6 must fail with it)
StreakDataAfterDoneRecount(streakData, t) ==
    IF IsYesterday(streakData, t) \/ IsToday(streakData, t) \/ streakData.streak = 0
    THEN [streak |-> streakData.streak + 1, lastExerciseDate |-> ISODate(t)]
    ELSE [streak |-> 1, lastExerciseDate |-> ISODate(t)]

\* the exerciseDoneToday branch: the record that is in the store afterwards
StreakDataAfterDone(streakData, t) ==
    IF IsToday(streakData, t)
    THEN streakData
    ELSE IF IsYesterday(streakData, t) \/ streakData.streak = 0
         THEN [streak |-> streakData.streak + 1, lastExerciseDate |-> ISODate(t)]
         ELSE [streak |-> 1, lastExerciseDate |-> ISODate(t)]

\* lastDate < twoDaysAgo && streakData.streak > 0, twoDaysAgo = now - 2 days
StreakBroken(streakData, t) ==
    /\ LastDate(streakData) < t - 2 * MsPerDay
    /\ streakData.streak > 0

\* variant that breaks a streak but keeps its date (C35 must fail with it)
StreakDataAfterMissedKeepDate(streakData, t) ==
    IF StreakBroken(streakData, t)
    THEN [streak |-> 0, lastExerciseDate |-> streakData.lastExerciseDate]
    ELSE streakData

\* the other branch: the record that is in the store afterwards
StreakDataAfterMissed(streakData, t) ==
    IF StreakBroken(streakData, t)
    THEN [streak |-> 0, lastExerciseDate |-> EmptyDate]
    ELSE streakData

\* useEffect(() => { updateMyStreak(); }, [exerciseDoneToday]) of the mounted
\* component.  The store is written only in the branches that call setItem.
updateMyStreak ==
    /\ streakEffectPending
    /\ ~resilienceEffectPending
    /\ activeTab = "progress"
    /\ op' = "updateMyStreak"
    /\ UNCHANGED probeVars
    /\ UNCHANGED <<ls_damage, storeFaulty, raised>>
    /\ streakEffectPending' = FALSE
    /\ LET streakData == IF ls_my_streak # NoItem
                         THEN ls_my_streak[1]
                         ELSE DefaultStreakData
           after == IF exerciseDoneToday
                    THEN StreakDataAfterDone(streakData, now)
                    ELSE StreakDataAfterMissed(streakData, now)
       IN IF ls_my_streak # NoItem /\ StreakCorrupt \in ls_damage
          THEN \* JSON.parse throws: the catch block
               /\ myStreak' = 0
               /\ consoleErrors' = consoleErrors \cup {StreakUpdateError}
               /\ UNCHANGED <<prevStreakData, ls_my_streak>>
          ELSE IF after # streakData /\ storeFaulty
          THEN \* setItem throws: the catch block
               /\ prevStreakData' = streakData
               /\ myStreak' = 0
               /\ consoleErrors' = consoleErrors \cup {StreakUpdateError}
               /\ UNCHANGED ls_my_streak
          ELSE /\ prevStreakData' = streakData
               /\ ls_my_streak' = IF after # streakData THEN Item(after)
                                  ELSE ls_my_streak
               /\ myStreak' = after.streak
               /\ UNCHANGED consoleErrors
    /\ UNCHANGED gameVars
    /\ UNCHANGED <<now, ls_last_exercise_date, ls_resilience_data, appVars,
                   resVars, trackerVars>>

---------------------------------------------------------------------------
(* ResilienceTracker.tsx *)

\* variant with a stress weight of 5 (C10 must fail with it)
ResilienceOfK5(count, stress) ==
    Max(0, Min(100, (count * 10) - ((stress * 5) \div StressUnit)))

\* Math.max(0, Math.min(100, (exerciseCount * 10) - (stress * 50)))
ResilienceOf(count, stress) ==
    Max(0, Min(100, (count * 10) - ((stress * StressWeight) \div StressUnit)))

RECURSIVE InsertByDate(_, _)
InsertByDate(sorted, r) ==
    IF sorted = <<>>
    THEN <<r>>
    ELSE IF r.date < Head(sorted).date
         THEN <<r>> \o sorted
         ELSE <<Head(sorted)>> \o InsertByDate(Tail(sorted), r)

\* data.sort((a, b) => new Date(a.date).getTime() - new Date(b.date).getTime())
RECURSIVE SortByDate(_)
SortByDate(data) ==
    IF data = <<>>
    THEN <<>>
    ELSE InsertByDate(SortByDate(SubSeq(data, 1, Len(data) - 1)), data[Len(data)])

\* existingData.findIndex(item => item.date === today), 0 for -1
FindDateIndex(data, today) ==
    IF \E i \in 1..Len(data) : data[i].date = today
    THEN CHOOSE i \in 1..Len(data) :
             /\ data[i].date = today
             /\ \A j \in 1..(i - 1) : data[j].date # today
    ELSE 0

\* variant that pushes a record on every update (C11 must fail with it)
UpsertAlwaysPush(data, rec) == Append(data, rec)

\* overwrite today's record or push a new one
Upsert(data, rec) ==
    LET i == FindDateIndex(data, rec.date)
    IN IF i > 0
       THEN [data EXCEPT ![i] = rec]
       ELSE Append(data, rec)

SeriesCap == 30

\* variant that keeps the first 30 of the sorted series (C12 must fail with it)
KeepFirstDays(data) ==
    IF Len(data) > SeriesCap
    THEN SubSeq(SortByDate(data), 1, SeriesCap)
    ELSE data

\* if (existingData.length > 30) sort by date and slice(-30)
KeepLastDays(data) ==
    IF Len(data) > SeriesCap
    THEN SliceLast(SortByDate(data), SeriesCap)
    ELSE data

EmptyDay(d) == [date |-> d, exercises |-> 0, stress |-> 0, resilience |-> 0]

\* getLastNDays(data, n), called at instant t: each missing day is unshifted in
\* front of the ones padded before it
getLastNDays(data, n, t) ==
    LET lastN == SliceLast(SortByDate(data), n)
        lastDate == IF Len(lastN) > 0 THEN ParseDate(lastN[1].date) ELSE t
        missing == n - Len(lastN)
    IN IF Len(lastN) < n
       THEN [k \in 1..missing |-> EmptyDay(ISODate(lastDate - k * MsPerDay))]
                \o lastN
       ELSE lastN

ChartDays == 7

\* useEffect(..., [exerciseCount, stress]) of the mounted component
\* the series the effect works on: the stored one when it parses to an array,
\* the empty one when nothing is stored, when JSON.parse throws (caught) or
\* when the parsed value is not an array
parseResilienceDataUnchecked(item, damage) ==
    IF item # NoItem THEN item[1] ELSE <<>>

parseResilienceData(item, damage) ==
    IF item # NoItem /\ damage \cap ResilienceDamage = {}
    THEN item[1]
    ELSE <<>>

resilienceEffect ==
    /\ resilienceEffectPending
    /\ activeTab = "progress"
    /\ op' = "resilienceEffect"
    /\ UNCHANGED probeVars
    /\ UNCHANGED storeFaulty
    /\ consoleErrors' = IF ls_resilience_data # NoItem
                           /\ ResilienceCorrupt \in ls_damage
                        THEN consoleErrors \cup {ResilienceParseError}
                        ELSE consoleErrors
    /\ resilienceEffectPending' = FALSE
    /\ LET newResilienceScore == ResilienceOf(exerciseCount, appStressLevel)
           today == ISODate(now)
           existingData == parseResilienceData(ls_resilience_data, ls_damage)
           rec == [date |-> today, exercises |-> exerciseCount,
                   stress |-> appStressLevel,
                   resilience |-> newResilienceScore]
           kept == KeepLastDays(Upsert(existingData, rec))
       IN /\ resilienceScore' = newResilienceScore
          /\ prevResilienceData' = existingData
          /\ IF storeFaulty
             THEN /\ raised' = raised \cup {"resilienceEffect"}
                  /\ UNCHANGED <<ls_resilience_data, ls_damage, weeklyData>>
             ELSE /\ ls_resilience_data' = Item(kept)
                  /\ ls_damage' = ls_damage \ ResilienceDamage
                  /\ weeklyData' = getLastNDays(kept, ChartDays, now)
                  /\ UNCHANGED raised
    /\ UNCHANGED gameVars
    /\ UNCHANGED <<now, ls_last_exercise_date, ls_my_streak, appVars,
                   streakVars, trackerVars>>

\* App.handleStressUpdate, the onStressUpdate prop of StressGame
handleStressUpdate(newStressLevel) ==
    appStressLevel' = newStressLevel

---------------------------------------------------------------------------
(* StressGame.tsx: handlers, effects and timers *)

\* App.handleLandmarkUpdate: a frame with a face brings a new landmarks object
handleLandmarkUpdate(newLandmarks, visible) ==
    /\ landmarks' = newLandmarks
    /\ faceVisible' = visible
    /\ gamePending' =
           gamePending
             \cup (IF newLandmarks # NoLandmarks \/ landmarks # NoLandmarks
                   THEN {"stressCheck", "validate"} ELSE {})
             \cup (IF visible # faceVisible
                   THEN {"stressCheck", "trigger"} ELSE {})

\* a frame as App sees it (the onLandmarkUpdate call of ExerciseTracker)
landmarkUpdate(newLandmarks, visible) ==
    /\ Quiescent
    /\ activeTab = "exercise"
    /\ frameCount < MaxFrames
    /\ now <= SessionStart + MaxFrameMs
    /\ frameCount' = frameCount + 1
    /\ op' = "handleLandmarkUpdate"
    /\ UNCHANGED probeVars
    /\ UNCHANGED faultVars
    /\ UNCHANGED <<sampleVars, scratchVars, frameTimer>>
    /\ handleLandmarkUpdate(newLandmarks, visible)
    /\ UNCHANGED <<now, storeVars, appVars, resVars, streakVars, trackerVars,
                   engineVars, gameTimers, lastCloseTime, lastLaunchTime>>

\* useEffect(..., [landmarks, faceVisible, onStressUpdate]): the interval is
\* cleared and set again
stressCheckEffect ==
    /\ EffectTurn("stressCheck")
    /\ op' = "stressCheckEffect"
    /\ UNCHANGED probeVars
    /\ UNCHANGED faultVars
    /\ UNCHANGED <<sampleVars, scratchVars, frameTimer>>
    /\ gamePending' = gamePending \ {"stressCheck"}
    /\ stressCheckDue' = now + StressCheckMs
    /\ UNCHANGED <<now, storeVars, appVars, resVars, streakVars, trackerVars,
                   landmarks, faceVisible, frameCount, engineVars,
                   progressTimerArmedAt, gameTimerDue, closeTimers,
                   resetTimers, lastCloseTime, lastLaunchTime>>

\* checkStress, a tick of the stress check interval
checkStress ==
    /\ Quiescent
    /\ stressCheckDue # NoTimer
    /\ stressCheckDue <= now
    /\ op' = "checkStress"
    /\ UNCHANGED probeVars
    /\ UNCHANGED faultVars
    /\ UNCHANGED <<scratchVars, frameTimer>>
    /\ stressCheckDue' = stressCheckDue + StressCheckMs
    /\ IF faceVisible /\ landmarks # NoLandmarks
       THEN LET newStressLevel == calculateStressLevel(landmarks)
            IN /\ stressLevel' = newStressLevel
               /\ stressHistory' = HistoryAfter(stressHistory, newStressLevel)
               /\ handleStressUpdate(newStressLevel)
               /\ gamePending' = gamePending \cup {"trigger"}
               /\ sampleCount' = sampleCount + 1
       ELSE UNCHANGED <<stressLevel, stressHistory, appStressLevel, gamePending,
                        sampleVars>>
    /\ UNCHANGED <<now, storeVars, exerciseCount, exerciseDoneToday,
                   currentExercise, completedExercises, activeTab, resVars,
                   streakVars, trackerVars, landmarks, faceVisible, frameCount,
                   activeGame, gameStartTime, gameProgress, gameSuccess,
                   showModal, requirementsMet, lastGameEndTime,
                   progressTimerArmedAt, gameTimerDue, closeTimers,
                   resetTimers, lastCloseTime, lastLaunchTime>>

\* triggerGame(game)
triggerGame(game) ==
    /\ activeGame' = <<game>>
    /\ gameStartTime' = now
    /\ gameProgress' = 0
    /\ gameSuccess' = NoSuccess
    /\ showModal' = TRUE
    /\ requirementsMet' = FALSE
    /\ lastLaunchTime' = now
    /\ scratch' = removeGameState(scratch)
    /\ validatorRuns' = 0
    /\ validatorStartTime' = ClosureStartTime(gameStartTime, now)
    /\ chinMoved' = FALSE

\* useEffect(..., [stressLevel, activeGame, faceVisible, stressHistory,
\* lastGameEndTime]): Math.random() decides whether a game starts and which
triggerEffect ==
    /\ EffectTurn("trigger")
    /\ \/ /\ TriggerCondition(stressLevel, activeGame, faceVisible, now,
                              lastGameEndTime)
          /\ TrendHigh(stressHistory)
          /\ op' = "triggerGame"
          /\ UNCHANGED probeVars
          /\ UNCHANGED faultVars
          /\ \E i \in 1..Len(games) : triggerGame(games[i])
          /\ gamePending' = gamePending \cup {"trigger", "progress", "validate"}
       \/ /\ op' = "triggerEffect"
          /\ UNCHANGED probeVars
          /\ UNCHANGED faultVars
          /\ gamePending' = gamePending \ {"trigger"}
          /\ UNCHANGED <<activeGame, gameStartTime, gameProgress, gameSuccess,
                         showModal, requirementsMet, lastLaunchTime,
                         scratchVars>>
    /\ UNCHANGED <<sampleVars, frameTimer>>
    /\ UNCHANGED <<now, storeVars, appVars, resVars, streakVars, trackerVars,
                   landmarks, faceVisible, frameCount, stressLevel,
                   stressHistory, lastGameEndTime, gameTimers, lastCloseTime>>

\* useEffect(..., [activeGame, gameStartTime, requirementsMet]): the cleanup of
\* the previous run clears both timers, then both are set for the game
progressEffect ==
    /\ EffectTurn("progress")
    /\ op' = "progressEffect"
    /\ UNCHANGED probeVars
    /\ UNCHANGED faultVars
    /\ UNCHANGED <<sampleVars, scratchVars, frameTimer>>
    /\ gamePending' = gamePending \ {"progress"}
    /\ IF activeGame # NoGame /\ gameStartTime # NoTime
       THEN /\ progressTimerArmedAt' = now
            /\ gameTimerDue' = now + DurationMs(activeGame[1])
       ELSE /\ progressTimerArmedAt' = NoTimer
            /\ gameTimerDue' = NoTimer
    /\ UNCHANGED <<now, storeVars, appVars, resVars, streakVars, trackerVars,
                   landmarks, faceVisible, frameCount, engineVars,
                   stressCheckDue, closeTimers, resetTimers, lastCloseTime, lastLaunchTime>>

\* useEffect(..., [landmarks, activeGame, gameStartTime])
validateEffect ==
    /\ EffectTurn("validate")
    /\ op' = "validateEffect"
    /\ UNCHANGED probeVars
    /\ UNCHANGED faultVars
    /\ UNCHANGED <<sampleVars, frameTimer>>
    /\ IF activeGame # NoGame /\ landmarks # NoLandmarks /\ gameStartTime # NoTime
       THEN LET meetsRequirements == validate(activeGame[1], landmarks)
            IN /\ requirementsMet' = meetsRequirements
               /\ gamePending' =
                      (gamePending \ {"validate"})
                        \cup (IF meetsRequirements # requirementsMet
                              THEN {"progress"} ELSE {})
               /\ \E moved \in BOOLEAN :
                      /\ scratch' = ScratchAfterValidate(activeGame[1],
                                        validatorStartTime, scratch, moved)
                      /\ chinMoved' = (/\ moved
                                       /\ activeGame[1].id = "jaw-jiggle"
                                       /\ validatorRuns >= 1)
               /\ validatorRuns' = Min(validatorRuns + 1, MaxCalls)
               /\ UNCHANGED validatorStartTime
       ELSE /\ gamePending' = gamePending \ {"validate"}
            /\ UNCHANGED <<requirementsMet, scratchVars>>
    /\ UNCHANGED <<now, storeVars, appVars, resVars, streakVars, trackerVars,
                   landmarks, faceVisible, frameCount, stressLevel, activeGame,
                   gameStartTime, gameProgress, gameSuccess, showModal,
                   stressHistory, lastGameEndTime, gameTimers, lastCloseTime, lastLaunchTime>>

\* completeGame(success): both timers are cleared, the result is set and
\* closeGame is scheduled
\* variant that records a win whatever it is given (C18 must fail with it)
completeGameAlwaysWon(success) ==
    /\ progressTimerArmedAt' = NoTimer
    /\ gameTimerDue' = NoTimer
    /\ gameSuccess' = <<TRUE>>
    /\ gameProgress' = 100
    /\ closeTimers' = closeTimers \cup {now + ResultDwellMs}

completeGame(success) ==
    /\ progressTimerArmedAt' = NoTimer
    /\ gameTimerDue' = NoTimer
    /\ gameSuccess' = <<success>>
    /\ gameProgress' = 100
    /\ closeTimers' = closeTimers \cup {now + ResultDwellMs}

\* the tick of the progress interval that finds progress >= 100
progressTick ==
    /\ Quiescent
    /\ ProgressDue # NoTimer
    /\ ProgressDue <= now
    /\ op' = "progressTick"
    /\ UNCHANGED probeVars
    /\ UNCHANGED faultVars
    /\ UNCHANGED <<sampleVars, scratchVars, frameTimer>>
    /\ completeGame(requirementsMet)
    /\ UNCHANGED <<now, storeVars, appVars, resVars, streakVars, trackerVars,
                   landmarks, faceVisible, frameCount, stressLevel, activeGame,
                   gameStartTime, showModal, requirementsMet, stressHistory,
                   lastGameEndTime, stressCheckDue, resetTimers, gamePending,
                   lastCloseTime, lastLaunchTime>>

\* the game timer, set for durationSecs after the progress effect ran
gameTimeout ==
    /\ Quiescent
    /\ gameTimerDue # NoTimer
    /\ gameTimerDue <= now
    /\ op' = "gameTimeout"
    /\ UNCHANGED probeVars
    /\ UNCHANGED faultVars
    /\ UNCHANGED <<sampleVars, scratchVars, frameTimer>>
    /\ completeGame(requirementsMet)
    /\ UNCHANGED <<now, storeVars, appVars, resVars, streakVars, trackerVars,
                   landmarks, faceVisible, frameCount, stressLevel, activeGame,
                   gameStartTime, showModal, requirementsMet, stressHistory,
                   lastGameEndTime, stressCheckDue, resetTimers, gamePending,
                   lastCloseTime, lastLaunchTime>>

\* closeGame
closeGame ==
    /\ showModal' = FALSE
    /\ lastGameEndTime' = now
    /\ lastCloseTime' = now
    /\ resetTimers' = resetTimers \cup {now + ResetDelayMs}
    /\ gamePending' = gamePending
                        \cup (IF lastGameEndTime # now THEN {"trigger"} ELSE {})

\* the timeout of completeGame that closes the modal by itself
closeTimeout ==
    /\ Quiescent
    /\ \E d \in closeTimers :
          /\ d <= now
          /\ closeTimers' = closeTimers \ {d}
    /\ op' = "closeGame"
    /\ UNCHANGED probeVars
    /\ UNCHANGED faultVars
    /\ UNCHANGED <<sampleVars, scratchVars, frameTimer>>
    /\ closeGame
    /\ UNCHANGED <<now, storeVars, appVars, resVars, streakVars, trackerVars,
                   landmarks, faceVisible, frameCount, stressLevel, activeGame,
                   gameStartTime, gameProgress, gameSuccess, requirementsMet,
                   stressHistory, stressCheckDue, progressTimerArmedAt,
                   gameTimerDue, lastLaunchTime>>

\* variant whose button is there while the game runs (C30 must fail with it)
closeButtonAnytime ==
    /\ Quiescent
    /\ showModal
    /\ activeGame # NoGame
    /\ op' = "closeButton"
    /\ UNCHANGED probeVars
    /\ UNCHANGED faultVars
    /\ UNCHANGED <<sampleVars, scratchVars, frameTimer>>
    /\ closeGame
    /\ UNCHANGED <<now, storeVars, appVars, resVars, streakVars, trackerVars,
                   landmarks, faceVisible, frameCount, stressLevel, activeGame,
                   gameStartTime, gameProgress, gameSuccess, requirementsMet,
                   stressHistory, stressCheckDue, progressTimerArmedAt,
                   gameTimerDue, closeTimers, lastLaunchTime>>

\* the Close button of the modal, shown once the game has a result
closeButton ==
    /\ Quiescent
    /\ showModal
    /\ activeGame # NoGame
    /\ gameSuccess # NoSuccess
    /\ op' = "closeButton"
    /\ UNCHANGED probeVars
    /\ UNCHANGED faultVars
    /\ UNCHANGED <<sampleVars, scratchVars, frameTimer>>
    /\ closeGame
    /\ UNCHANGED <<now, storeVars, appVars, resVars, streakVars, trackerVars,
                   landmarks, faceVisible, frameCount, stressLevel, activeGame,
                   gameStartTime, gameProgress, gameSuccess, requirementsMet,
                   stressHistory, stressCheckDue, progressTimerArmedAt,
                   gameTimerDue, closeTimers, lastLaunchTime>>

\* the timeout of closeGame that clears the game
resetTimeout ==
    /\ Quiescent
    /\ \E d \in resetTimers :
          /\ d <= now
          /\ resetTimers' = resetTimers \ {d}
    /\ op' = "resetGame"
    /\ UNCHANGED probeVars
    /\ UNCHANGED faultVars
    /\ UNCHANGED <<sampleVars, scratch, validatorStartTime, frameTimer>>
    /\ chinMoved' = FALSE
    /\ validatorRuns' = 0
    /\ activeGame' = NoGame
    /\ gameStartTime' = NoTime
    /\ gameProgress' = 0
    /\ gameSuccess' = NoSuccess
    /\ requirementsMet' = FALSE
    /\ gamePending' =
           gamePending
             \cup (IF activeGame # NoGame THEN {"trigger"} ELSE {})
             \cup (IF activeGame # NoGame \/ gameStartTime # NoTime
                      \/ requirementsMet
                   THEN {"progress"} ELSE {})
             \cup (IF activeGame # NoGame \/ gameStartTime # NoTime
                   THEN {"validate"} ELSE {})
    /\ UNCHANGED <<now, storeVars, appVars, resVars, streakVars, trackerVars,
                   landmarks, faceVisible, frameCount, stressLevel, showModal,
                   stressHistory, lastGameEndTime, stressCheckDue,
                   progressTimerArmedAt, gameTimerDue, closeTimers,
                   lastCloseTime, lastLaunchTime>>

\* time passes until the next timer is due
ClockTick ==
    /\ Quiescent
    /\ activeTab = "exercise"
    /\ DueTimes # {}
    /\ \A d \in DueTimes : d > now
    /\ LET next == CHOOSE d \in DueTimes : \A e \in DueTimes : d <= e
       IN /\ next <= SessionStart + MaxSessionMs
          /\ now' = next
          /\ gameProgress' = ProgressAt(Min(next, ProgressDue - ProgressTickMs))
    /\ op' = "tick"
    /\ UNCHANGED probeVars
    /\ UNCHANGED faultVars
    /\ UNCHANGED <<sampleVars, scratchVars, frameTimer>>
    /\ UNCHANGED <<storeVars, appVars, resVars, streakVars, trackerVars,
                   landmarks, faceVisible, frameCount, stressLevel, activeGame,
                   gameStartTime, gameSuccess, showModal, requirementsMet,
                   stressHistory, lastGameEndTime, gameTimers, gamePending,
                   lastCloseTime, lastLaunchTime>>

---------------------------------------------------------------------------
(* ExerciseTracker.tsx (first component of the file) *)

CompletionThreshold == 15

\* variant that keeps the streak on a failure (C2 must fail with it)
StreakAfterResultKeep(prev, isSuccessful) ==
    IF isSuccessful THEN prev + 1 ELSE prev

\* if (isSuccessful) setSuccessStreak(prev => prev + 1) else setSuccessStreak(0)
StreakAfterResult(prev, isSuccessful) ==
    IF isSuccessful THEN prev + 1 ELSE 0

\* variant that completes one success late (C1 must fail with it)
CompletionDueLate(streak) ==
    streak > CompletionThreshold

\* successStreak >= 15 (onExerciseComplete is always passed by App)
CompletionDue(streak) ==
    streak >= CompletionThreshold

\* mesh.onResults callback, a frame with a face: the validator of the exercise
\* the registered closure captured gives isSuccessful
onResultsFace(newLandmarks, isSuccessful) ==
    /\ Quiescent
    /\ activeTab = "exercise"
    /\ streakCompleteCalls < MaxCalls
    /\ op' = "onResults"
    /\ UNCHANGED probeVars
    /\ UNCHANGED faultVars
    /\ UNCHANGED <<sampleVars, scratchVars, frameTimer>>
    /\ handleLandmarkUpdate(newLandmarks, TRUE)
    /\ UNCHANGED <<frameCount, engineVars, gameTimers, lastCloseTime, lastLaunchTime>>
    /\ lastExerciseResult' =
           Item([isSuccessful |-> isSuccessful,
                 feedbackMessage |-> IF isSuccessful
                                     THEN successMessage(handlerExercise)
                                     ELSE failureMessage(handlerExercise)])
    /\ resultEffectPending' = TRUE
    /\ UNCHANGED <<now, storeVars, appVars, resVars, streakVars,
                   selectedExercise,
                   successStreak, feedback, showFeedback, streakChanged,
                   handlerExercise, streakCompleteCalls, successRun,
                   streakBefore, actuallyCompleted>>

\* mesh.onResults callback, no face in the frame: early return
onResultsNoFace ==
    /\ Quiescent
    /\ activeTab = "exercise"
    /\ op' = "onResultsNoFace"
    /\ UNCHANGED probeVars
    /\ UNCHANGED faultVars
    /\ UNCHANGED <<sampleVars, scratchVars, frameTimer>>
    /\ handleLandmarkUpdate(NoLandmarks, FALSE)
    /\ UNCHANGED <<now, storeVars, appVars, resVars, streakVars, trackerVars,
                   frameCount, engineVars, gameTimers, lastCloseTime, lastLaunchTime>>

\* useEffect(..., [lastExerciseResult])
resultEffect ==
    /\ resultEffectPending
    /\ lastExerciseResult # NoResult
    /\ op' = "resultEffect"
    /\ UNCHANGED probeVars
    /\ UNCHANGED faultVars
    /\ resultEffectPending' = FALSE
    /\ LET r == lastExerciseResult[1]
       IN /\ feedback' = r.feedbackMessage
          /\ showFeedback' = TRUE
          /\ successStreak' = StreakAfterResult(successStreak, r.isSuccessful)
          /\ successRun' = IF r.isSuccessful THEN successRun + 1 ELSE 0
    /\ streakBefore' = successStreak
    /\ streakChanged' = (successStreak' # successStreak)
    /\ UNCHANGED gameVars
    /\ UNCHANGED <<now, storeVars, appVars, resVars, streakVars,
                   selectedExercise,
                   lastExerciseResult, handlerExercise, streakCompleteCalls,
                   actuallyCompleted>>

\* useEffect(..., [successStreak, onProgressUpdate, onExerciseComplete,
\* selectedExercise]): the completion check
streakEffect ==
    /\ streakChanged
    /\ ~resultEffectPending
    /\ op' = "streakEffect"
    /\ UNCHANGED probeVars
    /\ UNCHANGED <<ls_damage, storeFaulty, consoleErrors>>
    /\ IF CompletionDue(successStreak)
       THEN /\ handleExerciseComplete
            /\ successStreak' = IF storeFaulty THEN successStreak ELSE 0
            /\ streakChanged' = ~storeFaulty
            /\ streakCompleteCalls' = streakCompleteCalls + 1
            /\ successRun' = 0
            /\ UNCHANGED <<ls_my_streak, ls_resilience_data, currentExercise,
                           activeTab, appStressLevel>>
       ELSE /\ streakChanged' = FALSE
            /\ UNCHANGED <<storeVars, appVars, successStreak, raised,
                           streakCompleteCalls, successRun, actuallyCompleted>>
    /\ UNCHANGED gameVars
    /\ UNCHANGED <<now, resVars, streakVars, selectedExercise,
                   lastExerciseResult,
                   feedback, showFeedback, resultEffectPending,
                   handlerExercise, streakBefore>>

\* variant that leaves the streak as it is (C15 must fail with it)
handleExerciseChangeKeepStreak(newExercise) ==
    /\ Quiescent
    /\ activeTab = "exercise"
    /\ newExercise # selectedExercise
    /\ op' = "handleExerciseChange"
    /\ UNCHANGED probeVars
    /\ UNCHANGED faultVars
    /\ selectedExercise' = newExercise
    /\ feedback' = NoFeedback
    /\ showFeedback' = FALSE
    /\ successRun' = 0
    /\ streakChanged' = TRUE
    /\ handleExerciseSelection(newExercise)
    /\ UNCHANGED gameVars
    /\ UNCHANGED <<now, storeVars, exerciseCount, exerciseDoneToday,
                   completedExercises, activeTab, appStressLevel, resVars,
                   streakVars, successStreak, lastExerciseResult,
                   resultEffectPending, handlerExercise,
                   streakCompleteCalls, streakBefore, actuallyCompleted>>

\* the <select> onChange
handleExerciseChange(newExercise) ==
    /\ Quiescent
    /\ activeTab = "exercise"
    /\ newExercise # selectedExercise
    /\ op' = "handleExerciseChange"
    /\ UNCHANGED probeVars
    /\ UNCHANGED faultVars
    /\ selectedExercise' = newExercise
    /\ feedback' = NoFeedback
    /\ showFeedback' = FALSE
    /\ successStreak' = 0
    /\ successRun' = 0
    /\ streakChanged' = TRUE
    /\ handleExerciseSelection(newExercise)
    /\ UNCHANGED gameVars
    /\ UNCHANGED <<now, storeVars, exerciseCount, exerciseDoneToday,
                   completedExercises, activeTab, appStressLevel, resVars,
                   streakVars, lastExerciseResult, resultEffectPending, handlerExercise,
                   streakCompleteCalls, streakBefore, actuallyCompleted>>

\* the button next to the selector that marks the exercise complete by hand
markCompleteButton ==
    /\ Quiescent
    /\ activeTab = "exercise"
    /\ op' = "markCompleteButton"
    /\ UNCHANGED probeVars
    /\ UNCHANGED <<ls_damage, storeFaulty, consoleErrors>>
    /\ feedback' = successMessage(selectedExercise)
    /\ showFeedback' = TRUE
    /\ handleExerciseComplete
    /\ UNCHANGED gameVars
    /\ UNCHANGED <<now, ls_my_streak, ls_resilience_data, currentExercise,
                   activeTab, appStressLevel, resVars, streakVars,
                   selectedExercise, successStreak, lastExerciseResult,
                   resultEffectPending, streakChanged, handlerExercise,
                   streakCompleteCalls, successRun, streakBefore>>

\* setTimeout(() => setShowFeedback(false), 8000): one is scheduled whenever
\* the feedback is shown, so one is outstanding while it is shown
hideFeedbackTimeout ==
    /\ Quiescent
    /\ activeTab = "exercise"
    /\ showFeedback
    /\ op' = "hideFeedback"
    /\ UNCHANGED probeVars
    /\ UNCHANGED faultVars
    /\ showFeedback' = FALSE
    /\ UNCHANGED gameVars
    /\ UNCHANGED <<now, storeVars, appVars, resVars, streakVars,
                   selectedExercise,
                   successStreak, lastExerciseResult, feedback,
                   resultEffectPending, streakChanged, handlerExercise,
                   streakCompleteCalls, successRun, streakBefore,
                   actuallyCompleted>>

---------------------------------------------------------------------------
(* FacialAnalysis.tsx: calculateStressLevel written out.                    *)
(*                                                                         *)
(* A number is a whole count of ten-thousandths (One is 1.0); a product or  *)
(* a quotient is cut to the ten-thousandth.  A frame is the record of the   *)
(* landmarks the function reads, each with its x and y.  The value returned *)
(* is a record: a number, or NaN (0 / 0, which Math.min and Math.max hand   *)
(* on).  A positive number divided by 0 is Infinity, which Math.min(1, .)   *)
(* turns into 1.                                                            *)

One == 100 * 100

\* the thresholds of eyeWinker, in ten-thousandths: 0.01, 0.02 and 0.02
EyeClosedBelow == 100
EyeOpenAbove == 200
WinkAsymmetry == 200

\* the greatest eye coordinate tried is 7 * MaxEyeY ten-thousandths
MaxEyeY == 1000

Abs(a) == IF a < 0 THEN 0 - a ELSE a

Num(v) == [nan |-> FALSE, value |-> v]
NaN == [nan |-> TRUE, value |-> 0]

\* Math.min(1, Math.max(0, (jawWidth / jawHeight - 2.0) * 2)); with both 0
\* the quotient is NaN and so is the factor
jawFactorOf(jawWidth, jawHeight) ==
    IF jawHeight = 0
    THEN IF jawWidth = 0 THEN NaN ELSE Num(One)
    ELSE Num(Min(One, Max(0, ((jawWidth * One) \div jawHeight - 2 * One) * 2)))

\* calculateStressLevel(landmarks), Math.random() returning random
stressEstimate(frame, random) ==
    IF frame = NoLandmarks
    THEN Num(One \div 2)
    ELSE
    LET lm == frame[1]
        leftBrowInner == lm.LEFT_EYEBROW_INNER
        rightBrowInner == lm.RIGHT_EYEBROW_INNER
        leftBrowOuter == lm.LEFT_EYEBROW_OUTER
        rightBrowOuter == lm.RIGHT_EYEBROW_OUTER
        noseBridge == lm.NOSE_BRIDGE
        browPinchFactor ==
            Abs((leftBrowInner.y - noseBridge.y)
                  + (rightBrowInner.y - noseBridge.y)) \div 2
        browAsymmetry ==
            Abs((leftBrowOuter.y - leftBrowInner.y)
                  - (rightBrowOuter.y - rightBrowInner.y))
        mouthWidth == Abs(lm.MOUTH_LEFT.x - lm.MOUTH_RIGHT.x)
        mouthOpenness == Abs(lm.UPPER_LIP.y - lm.LOWER_LIP.y)
        \* Math.min(0.05, mouthOpenness) / 0.05
        lipCompression == Min(One \div 20, mouthOpenness) * 20
        leftEyeOpening == Abs(lm.LEFT_EYE_TOP.y - lm.LEFT_EYE_BOTTOM.y)
        rightEyeOpening == Abs(lm.RIGHT_EYE_TOP.y - lm.RIGHT_EYE_BOTTOM.y)
        eyeOpenness == (leftEyeOpening + rightEyeOpening) \div 2
        eyeWidenFactor == Abs(eyeOpenness - (3 * One) \div 100) * 10
        eyeAsymmetry == Abs(leftEyeOpening - rightEyeOpening) * 10
        foreheadVariation == Abs(lm.FOREHEAD_TOP.y - lm.FOREHEAD_MID.y)
        jawWidth == Abs(lm.JAW_LEFT.x - lm.JAW_RIGHT.x)
        jawHeight == Abs(lm.JAW_CENTER.y - lm.CHIN.y)
        noseWidth == Abs(lm.NOSE_LEFT.x - lm.NOSE_RIGHT.x)
        noseFlaring == Max(0, (noseWidth - (15 * One) \div 100) * 5)
        mouthFactor == One - Min(One, (mouthWidth * 35) \div 10)
        eyebrowFactor ==
            Min(One, (One - browPinchFactor) * 5 + browAsymmetry * 3)
        eyeFactor ==
            Min(One, (eyeWidenFactor * 7) \div 10 + (eyeAsymmetry * 3) \div 10)
        foreheadFactor == Min(One, foreheadVariation * 15)
        jawFactor == jawFactorOf(jawWidth, jawHeight)
        lipFactor == One - lipCompression
        weighted ==
            (mouthFactor * 20 + eyebrowFactor * 25 + eyeFactor * 15
               + foreheadFactor * 15 + jawFactor.value * 15 + lipFactor * 5
               + noseFlaring * 5) \div 100
        \* stressLevel * 0.95 + Math.random() * 0.05
        jittered == (weighted * 95 + random * 5) \div 100
    IN IF jawFactor.nan
       THEN NaN
       ELSE Num(Min(One, Max(0, jittered)))

\* one call of calculateStressLevel
calculateStressLevelCall ==
    /\ probeResult = <<>>
    /\ op' = "calculateStressLevel"
    /\ probeResult' = <<stressEstimate(probeLandmarks, probeRandom)>>
    /\ UNCHANGED faultVars
    /\ UNCHANGED <<now, storeVars, appVars, resVars, streakVars, trackerVars,
                   gameVars, probeLandmarks, probeRandom>>

---------------------------------------------------------------------------
(* Specifications *)

\* App without landmarks and a StressGame whose mount effects have run
GameInit(t) ==
    /\ landmarks = NoLandmarks
    /\ faceVisible = FALSE
    /\ frameCount = 0
    /\ stressLevel = 0
    /\ activeGame = NoGame
    /\ gameStartTime = NoTime
    /\ gameProgress = 0
    /\ gameSuccess = NoSuccess
    /\ showModal = FALSE
    /\ requirementsMet = FALSE
    /\ stressHistory = <<>>
    /\ lastGameEndTime = 0
    /\ stressCheckDue = t + StressCheckMs
    /\ progressTimerArmedAt = NoTimer
    /\ gameTimerDue = NoTimer
    /\ closeTimers = {}
    /\ resetTimers = {}
    /\ gamePending = {}
    /\ lastCloseTime = NoTime
    /\ lastLaunchTime = NoTime
    /\ sampleCount = 0
    /\ \E stale \in TabStores : scratch = removeGameState(stale)
    /\ validatorRuns = 0
    /\ validatorStartTime = NoTime
    /\ chinMoved = FALSE

\* no call of a function of FacialAnalysis.tsx is being followed
\* frames arrive when the model's environment says so, not as a steady stream
NoFrameStream ==
    /\ frameDue = NoTimer
    /\ framePeriod = 0

\* localStorage holds what the program wrote and takes every write
NoFaults ==
    /\ ls_damage = {}
    /\ storeFaulty = FALSE
    /\ raised = {}
    /\ consoleErrors = {}

ProbeIdle ==
    /\ probeLandmarks = NoLandmarks
    /\ probeRandom = 0
    /\ probeResult = <<>>

\* the page has just loaded with an empty localStorage
AppStart ==
    /\ now = SessionStart
    /\ op = "init"
    /\ ls_last_exercise_date = NoItem
    /\ ls_my_streak = NoItem
    /\ ls_resilience_data = NoItem
    /\ appStressLevel = 0
    /\ resilienceScore = 0
    /\ weeklyData = <<>>
    /\ resilienceEffectPending = FALSE
    /\ prevResilienceData = <<>>
    /\ exerciseCount = 0
    /\ exerciseDoneToday = FALSE
    /\ currentExercise = ""
    /\ completedExercises = {}
    /\ activeTab = "exercise"
    /\ myStreak = 0
    /\ streakEffectPending = FALSE
    /\ prevStreakData = DefaultStreakData
    /\ selectedExercise = InitialExercise
    /\ successStreak = 0
    /\ lastExerciseResult = NoResult
    /\ feedback = NoFeedback
    /\ showFeedback = FALSE
    /\ resultEffectPending = FALSE
    /\ streakChanged = FALSE
    /\ handlerExercise = InitialExercise
    /\ streakCompleteCalls = 0
    /\ successRun = 0
    /\ streakBefore = 0
    /\ actuallyCompleted = {}
    /\ GameInit(now)

Init == AppStart /\ ProbeIdle /\ NoFrameStream /\ NoFaults

\* the frames of SpecTracker differ only in what the exercise validator finds
TrackerFrame == Frame(StressUnit \div 5, FALSE)

\* the exercise session: frames, selection changes, the button, the effects
NextTracker ==
    \/ \E b \in BOOLEAN : onResultsFace(TrackerFrame, b)
    \/ onResultsNoFace
    \/ stressCheckEffect
    \/ triggerEffect
    \/ validateEffect
    \/ resultEffect
    \/ streakEffect
    \/ \E e \in ChoiceExercises : handleExerciseChange(e)
    \/ markCompleteButton
    \/ hideFeedbackTimeout

SpecTracker == Init /\ [][NextTracker]_vars

\* a face result that lacks the points the running validator reads
PartialFrame == <<[points |-> "some missing"]>>

\* onResults for such a frame: it is handed to handleLandmarkUpdate as a face,
\* then exercises[selectedExercise].validate reads .y of a point that is
\* undefined and throws a TypeError, so setLastExerciseResult is not reached
onResultsPartial ==
    /\ Quiescent
    /\ activeTab = "exercise"
    /\ op' = "onResultsPartial"
    /\ UNCHANGED probeVars
    /\ UNCHANGED <<ls_damage, storeFaulty, consoleErrors>>
    /\ UNCHANGED <<sampleVars, scratchVars, frameTimer>>
    /\ handleLandmarkUpdate(PartialFrame, TRUE)
    /\ raised' = raised \cup {"onResults"}
    /\ UNCHANGED <<now, storeVars, appVars, resVars, streakVars, trackerVars,
                   frameCount, engineVars, gameTimers, lastCloseTime,
                   lastLaunchTime>>

NextPartial ==
    \/ NextTracker
    \/ onResultsPartial

SpecPartial == Init /\ [][NextPartial]_vars

\* the completion bookkeeping of App over all ten exercises
NextApp ==
    \/ \E e \in AllExercises : handleExerciseChange(e)
    \/ streakEffect
    \/ markCompleteButton

SpecApp == Init /\ [][NextApp]_vars

\* the day streak: completions, tab switches, reloads and the calendar
NextStreak ==
    \/ markCompleteButton
    \/ \E tab \in {"exercise", "progress"} : setActiveTab(tab)
    \/ resilienceEffect
    \/ updateMyStreak
    \/ AppReload
    \/ ClockAdvance

SpecStreak == Init /\ [][NextStreak]_vars

\* the resilience score: App states with n exercises completed and any stress
\* level, shown on the progress tab
FirstExercises(n) == { ExerciseNames[i] : i \in 1..n }

InitResilience ==
    \E n \in 0..Len(ExerciseNames), s \in 0..StressUnit :
        /\ now = SessionStart
        /\ op = "init"
        /\ ls_last_exercise_date = IF n > 0 THEN Item(StartDay) ELSE NoItem
        /\ ls_my_streak = NoItem
        /\ ls_resilience_data = NoItem
        /\ appStressLevel = s
        /\ resilienceScore = 0
        /\ weeklyData = <<>>
        /\ resilienceEffectPending = FALSE
        /\ prevResilienceData = <<>>
        /\ exerciseCount = n
        /\ exerciseDoneToday = (n > 0)
        /\ currentExercise = IF n > 0 THEN ExerciseNames[n] ELSE ""
        /\ completedExercises = FirstExercises(n)
        /\ activeTab = "exercise"
        /\ myStreak = 0
        /\ streakEffectPending = FALSE
        /\ prevStreakData = DefaultStreakData
        /\ selectedExercise = IF n > 0 THEN ExerciseNames[n] ELSE InitialExercise
        /\ successStreak = 0
        /\ lastExerciseResult = NoResult
        /\ feedback = NoFeedback
        /\ showFeedback = FALSE
        /\ resultEffectPending = FALSE
        /\ streakChanged = FALSE
        /\ handlerExercise = InitialExercise
        /\ streakCompleteCalls = 0
        /\ successRun = 0
        /\ streakBefore = 0
        /\ actuallyCompleted = FirstExercises(n)
        /\ GameInit(now)
        /\ ProbeIdle
        /\ NoFrameStream
        /\ NoFaults

NextResilience ==
    \/ \E tab \in {"exercise", "progress"} : setActiveTab(tab)
    \/ resilienceEffect
    \/ updateMyStreak

SpecResilience == InitResilience /\ [][NextResilience]_vars

\* the resilience series after a month of use: the progress tab was opened on
\* each of the last n days before any exercise or stress reading of the day
\* (the days before day 0 have negative numbers)
PastSeries(n) == [k \in 1..n |-> EmptyDay(StartDay - n - 1 + k)]

InitSeries ==
    /\ now = SessionStart
    /\ op = "init"
    /\ ls_last_exercise_date = NoItem
    /\ ls_my_streak = NoItem
    /\ ls_resilience_data \in { NoItem, Item(PastSeries(SeriesCap - 1)),
                                Item(PastSeries(SeriesCap)) }
    /\ appStressLevel = 0
    /\ resilienceScore = 0
    /\ weeklyData = <<>>
    /\ resilienceEffectPending = FALSE
    /\ prevResilienceData = <<>>
    /\ exerciseCount = 0
    /\ exerciseDoneToday = FALSE
    /\ currentExercise = ""
    /\ completedExercises = {}
    /\ activeTab = "exercise"
    /\ myStreak = 0
    /\ streakEffectPending = FALSE
    /\ prevStreakData = DefaultStreakData
    /\ selectedExercise = InitialExercise
    /\ successStreak = 0
    /\ lastExerciseResult = NoResult
    /\ feedback = NoFeedback
    /\ showFeedback = FALSE
    /\ resultEffectPending = FALSE
    /\ streakChanged = FALSE
    /\ handlerExercise = InitialExercise
    /\ streakCompleteCalls = 0
    /\ successRun = 0
    /\ streakBefore = 0
    /\ actuallyCompleted = {}
    /\ GameInit(now)
    /\ ProbeIdle
    /\ NoFrameStream
    /\ NoFaults

NextSeries ==
    \/ markCompleteButton
    \/ \E tab \in {"exercise", "progress"} : setActiveTab(tab)
    \/ resilienceEffect
    \/ updateMyStreak
    \/ AppReload
    \/ ClockAdvance

SpecSeries == InitSeries /\ [][NextSeries]_vars

\* fully populated frames with every coordinate in [0,1]: each group of
\* landmarks the estimator reads is placed in a usual and in extreme ways
P(cx, cy) == [x |-> (cx * One) \div 100, y |-> (cy * One) \div 100]

Brows(inner, leftOuter, bridge) ==
    [LEFT_EYEBROW_INNER |-> P(40, inner), RIGHT_EYEBROW_INNER |-> P(60, inner),
     LEFT_EYEBROW_OUTER |-> P(30, leftOuter),
     RIGHT_EYEBROW_OUTER |-> P(70, inner),
     NOSE_BRIDGE |-> P(50, bridge)]
Mouth(l, r) == [MOUTH_LEFT |-> P(l, 70), MOUTH_RIGHT |-> P(r, 70)]
Lips(u, l) == [UPPER_LIP |-> P(50, u), LOWER_LIP |-> P(50, l)]
Eyes(lt, lb, rt, rb) ==
    [LEFT_EYE_TOP |-> P(40, lt), LEFT_EYE_BOTTOM |-> P(40, lb),
     RIGHT_EYE_TOP |-> P(60, rt), RIGHT_EYE_BOTTOM |-> P(60, rb)]
Forehead(t, m) == [FOREHEAD_TOP |-> P(50, t), FOREHEAD_MID |-> P(50, m)]
JawSides(l, r) == [JAW_LEFT |-> P(l, 85), JAW_RIGHT |-> P(r, 85)]
JawChin(c, chin) == [JAW_CENTER |-> P(50, c), CHIN |-> P(50, chin)]
Nose(l, r) == [NOSE_LEFT |-> P(l, 50), NOSE_RIGHT |-> P(r, 50)]

FullFrames ==
    { <<b @@ m @@ l @@ e @@ f @@ js @@ jc @@ n>> :
        b \in {Brows(30, 30, 40), Brows(38, 30, 40), Brows(0, 100, 100)},
        m \in {Mouth(40, 60), Mouth(50, 50), Mouth(0, 100)},
        l \in {Lips(70, 70), Lips(65, 75)},
        e \in {Eyes(35, 38, 35, 38), Eyes(35, 38, 38, 38), Eyes(0, 100, 0, 100)},
        f \in {Forehead(10, 10), Forehead(0, 100)},
        js \in {JawSides(35, 65), JawSides(50, 50), JawSides(0, 100)},
        jc \in {JawChin(90, 95), JawChin(90, 90), JawChin(0, 100)},
        n \in {Nose(45, 55), Nose(0, 100)} }

\* Math.random() is in [0, 1)
Randoms == {0, One \div 2, One - 1}

\* the stress estimator as a function: any frame or none, any random draw
InitStress ==
    /\ AppStart
    /\ NoFrameStream
    /\ NoFaults
    /\ probeLandmarks \in FullFrames \cup {NoLandmarks}
    /\ probeRandom \in Randoms
    /\ probeResult = <<>>

NextStress == calculateStressLevelCall

SpecStress == InitStress /\ [][NextStress]_vars

\* the four landmarks eyeWinker reads, y in ten-thousandths of the frame height
EyesAt(lt, lb, rt, rb) ==
    <<[LEFT_EYE_TOP |-> [x |-> 4 * MaxEyeY, y |-> lt],
       LEFT_EYE_BOTTOM |-> [x |-> 4 * MaxEyeY, y |-> lb],
       RIGHT_EYE_TOP |-> [x |-> 6 * MaxEyeY, y |-> rt],
       RIGHT_EYE_BOTTOM |-> [x |-> 6 * MaxEyeY, y |-> rb]]>>

\* eye openings around the two thresholds, 0.01 and 0.02, and far from them
EyeOpenings == {0, 50, 99, 100, 150, 200, 201, 260, 300, 3 * MaxEyeY}

\* the lower lid below the upper one, or (a frame upside down) above it
EyeFrames ==
    { EyesAt(4 * MaxEyeY, 4 * MaxEyeY + l, 4 * MaxEyeY, 4 * MaxEyeY + r) :
          l \in EyeOpenings, r \in EyeOpenings }
    \cup { EyesAt(4 * MaxEyeY, 4 * MaxEyeY - l, 4 * MaxEyeY, 4 * MaxEyeY + r) :
             l \in EyeOpenings, r \in EyeOpenings }

\* ExerciseValidators.eyeWinker(landmarks)
eyeWinkerAsymmetryOnly(frame) ==
    LET lm == frame[1]
        leftEyeOpening == Abs(lm.LEFT_EYE_TOP.y - lm.LEFT_EYE_BOTTOM.y)
        rightEyeOpening == Abs(lm.RIGHT_EYE_TOP.y - lm.RIGHT_EYE_BOTTOM.y)
        asymmetry == Abs(leftEyeOpening - rightEyeOpening)
    IN asymmetry > WinkAsymmetry

eyeWinker(frame) ==
    LET lm == frame[1]
        leftEyeOpening == Abs(lm.LEFT_EYE_TOP.y - lm.LEFT_EYE_BOTTOM.y)
        rightEyeOpening == Abs(lm.RIGHT_EYE_TOP.y - lm.RIGHT_EYE_BOTTOM.y)
        asymmetry == Abs(leftEyeOpening - rightEyeOpening)
        oneEyeClosed == Min(leftEyeOpening, rightEyeOpening) < EyeClosedBelow
        oneEyeOpen == Max(leftEyeOpening, rightEyeOpening) > EyeOpenAbove
    IN asymmetry > WinkAsymmetry /\ oneEyeClosed /\ oneEyeOpen

\* one call of ExerciseValidators.eyeWinker
eyeWinkerCall ==
    /\ probeResult = <<>>
    /\ op' = "eyeWinker"
    /\ probeResult' = <<eyeWinker(probeLandmarks)>>
    /\ UNCHANGED faultVars
    /\ UNCHANGED <<now, storeVars, appVars, resVars, streakVars, trackerVars,
                   gameVars, probeLandmarks, probeRandom>>

\* the wink validator as a function of the four eye landmarks
InitWinker ==
    /\ AppStart
    /\ NoFrameStream
    /\ NoFaults
    /\ probeLandmarks \in EyeFrames
    /\ probeRandom = 0
    /\ probeResult = <<>>

NextWinker == eyeWinkerCall

SpecWinker == InitWinker /\ [][NextWinker]_vars

\* the frames of SpecGame: calm or tense, meeting the game's validator or not
StressReadings == {StressUnit \div 5, (4 * StressUnit) \div 5}
Frames == { Frame(r, m) : r \in StressReadings, m \in BOOLEAN }

\* the stress game session: frames, the stress check, the game's timers, the
\* Close button and the clock
NextGame ==
    \/ \E lm \in Frames : landmarkUpdate(lm, TRUE)
    \/ landmarkUpdate(NoLandmarks, FALSE)
    \/ stressCheckEffect
    \/ checkStress
    \/ triggerEffect
    \/ progressEffect
    \/ validateEffect
    \/ progressTick
    \/ gameTimeout
    \/ closeTimeout
    \/ closeButton
    \/ resetTimeout
    \/ ClockTick

SpecGame == Init /\ [][NextGame]_vars

\* the camera delivers frames in a steady stream from the start of the
\* session, one every second or one every four seconds, each with a tense face
FramePeriods == {1000, 4000}
StreamFrames == { Frame((4 * StressUnit) \div 5, TRUE) }

\* one frame of the stream: onResults finds a face and hands its landmarks to
\* handleLandmarkUpdate
cameraFrame(newLandmarks) ==
    /\ Quiescent
    /\ activeTab = "exercise"
    /\ frameDue # NoTimer
    /\ frameDue <= now
    /\ frameDue' = frameDue + framePeriod
    /\ op' = "cameraFrame"
    /\ UNCHANGED probeVars
    /\ UNCHANGED faultVars
    /\ UNCHANGED <<sampleVars, scratchVars, framePeriod, frameCount>>
    /\ handleLandmarkUpdate(newLandmarks, TRUE)
    /\ UNCHANGED <<now, storeVars, appVars, resVars, streakVars, trackerVars,
                   engineVars, gameTimers, lastCloseTime, lastLaunchTime>>

InitStream ==
    /\ AppStart
    /\ ProbeIdle
    /\ NoFaults
    /\ \E period \in FramePeriods :
          /\ framePeriod = period
          /\ frameDue = now

NextStream ==
    \/ \E lm \in StreamFrames : cameraFrame(lm)
    \/ stressCheckEffect
    \/ checkStress
    \/ triggerEffect
    \/ progressEffect
    \/ validateEffect
    \/ progressTick
    \/ gameTimeout
    \/ closeTimeout
    \/ closeButton
    \/ resetTimeout
    \/ ClockTick

SpecStream == InitStream /\ [][NextStream]_vars

\* a camera whose frame rate changes: 4 s between frames at first, 40 ms (25
\* frames a second) from the launch of a game on, a game that starts as soon
\* as five samples have been taken.  Each frame shows a tense
\* face; a slow frame meets the game's requirement, the fast frames show a
\* face at the edge of the requirement, which meets it in one frame and
\* misses it in the next
SlowFrameMs == 4000
FastFrameMs == 40
FlickerFrames == { Frame((4 * StressUnit) \div 5, m) : m \in BOOLEAN }

Flickers(lm) ==
    lm[1].meets = IF framePeriod = FastFrameMs
                  THEN ~(landmarks # NoLandmarks /\ landmarks[1].meets)
                  ELSE TRUE

cameraSpeedUp ==
    /\ Quiescent
    /\ activeTab = "exercise"
    /\ activeGame # NoGame
    /\ gameSuccess = NoSuccess
    /\ now = lastLaunchTime
    /\ sampleCount = TrendWindow
    /\ framePeriod = SlowFrameMs
    /\ framePeriod' = FastFrameMs
    /\ frameDue' = now + FastFrameMs
    /\ op' = "cameraSpeedUp"
    /\ UNCHANGED probeVars
    /\ UNCHANGED faultVars
    /\ UNCHANGED <<sampleVars, scratchVars, frameCount>>
    /\ UNCHANGED <<now, storeVars, appVars, resVars, streakVars, trackerVars,
                   landmarks, faceVisible, engineVars, gameTimers, gamePending,
                   lastCloseTime, lastLaunchTime>>

InitFlicker ==
    /\ AppStart
    /\ ProbeIdle
    /\ NoFaults
    /\ framePeriod = SlowFrameMs
    /\ frameDue = now

NextFlicker ==
    \/ \E lm \in FlickerFrames : Flickers(lm) /\ cameraFrame(lm)
    \/ cameraSpeedUp
    \/ stressCheckEffect
    \/ checkStress
    \/ triggerEffect
    \/ progressEffect
    \/ validateEffect
    \/ progressTick
    \/ gameTimeout
    \/ closeTimeout
    \/ closeButton
    \/ resetTimeout
    \/ ClockTick

SpecFlicker == InitFlicker /\ [][NextFlicker]_vars

Spec == SpecTracker

---------------------------------------------------------------------------
(* Claims about the exercise streak (SpecTracker) *)

\* C1: the streak counts the successful evaluations in a row (since the last
\* failure, completion or selection change); it never passes 15; when it is
\* 15 the completion effect is due, and that effect calls onExerciseComplete
\* exactly once and leaves the streak at 0; the streak effect makes no call
\* at any streak below 15.
C1_StreakCompletion ==
    [][ /\ successStreak' = successRun'
        /\ successStreak' <= 15
        /\ (successStreak' = 15) => streakChanged'
        /\ (op' = "streakEffect" /\ successStreak = 15) =>
               /\ streakCompleteCalls' = streakCompleteCalls + 1
               /\ successStreak' = 0
        /\ (streakCompleteCalls' # streakCompleteCalls) =>
               /\ successStreak = 15
               /\ successRun = 15
               /\ streakCompleteCalls' = streakCompleteCalls + 1
               /\ successStreak' = 0
      ]_vars

\* a completion has just fired after a 15th success in a row
C1_Witness ==
    /\ op = "streakEffect"
    /\ streakCompleteCalls = 1
    /\ streakBefore = 14
    /\ successStreak = 0

\* C2: the effect that handles one evaluated frame adds 1 to the streak on a
\* success and sets it to 0 on a failure; a failure fires no completion, so a
\* completion only ever follows a successful frame.
C2_StreakRule ==
    [][ /\ (op' = "resultEffect" /\ resultEffectPending) =>
               /\ lastExerciseResult[1].isSuccessful =>
                      successStreak' = successStreak + 1
               /\ ~lastExerciseResult[1].isSuccessful =>
                      /\ successStreak' = 0
                      /\ streakCompleteCalls' = streakCompleteCalls
        /\ (streakCompleteCalls' # streakCompleteCalls) =>
               /\ lastExerciseResult # NoResult
               /\ lastExerciseResult[1].isSuccessful
      ]_vars

\* one failed frame at streak 14: the streak is 0 and nothing completed
C2_Witness ==
    /\ op = "resultEffect"
    /\ streakBefore = 14
    /\ lastExerciseResult # NoResult
    /\ ~lastExerciseResult[1].isSuccessful
    /\ successStreak = 0
    /\ streakCompleteCalls = 0

\* the exercise whose validator gave the last result (its messages name it)
ValidatedExercise == lastExerciseResult[1].feedbackMessage[1]

\* C14: for every frame with a face, the validator run is the one of the
\* exercise selected at that moment.
C14_SelectedValidatorRuns ==
    op = "onResults" => ValidatedExercise = selectedExercise

\* C15: a selection change sets the streak to 0, clears and hides the
\* feedback and tells App the new exercise; the streak only ever counts
\* successful evaluations made since the last selection change.
C15_SelectionChangeResets ==
    [][ /\ (op' = "handleExerciseChange") =>
               /\ selectedExercise' # selectedExercise
               /\ successStreak' = 0
               /\ feedback' = NoFeedback
               /\ ~showFeedback'
               /\ currentExercise' = selectedExercise'
        /\ successStreak' <= successRun'
      ]_vars

\* the selection has just changed after a run of 14 successes whose feedback
\* was on display
C15_Witness ==
    /\ op = "handleExerciseChange"
    /\ selectedExercise = "Brow Lifter"
    /\ currentExercise = "Brow Lifter"
    /\ lastExerciseResult # NoResult
    /\ lastExerciseResult[1].isSuccessful
    /\ streakBefore = 13
    /\ successStreak = 0
    /\ ~showFeedback
    /\ feedback = NoFeedback

---------------------------------------------------------------------------
(* Claims about the day streak (SpecStreak) *)

\* the record updateMyStreak reads
StoredStreak == IF ls_my_streak = NoItem THEN DefaultStreakData ELSE ls_my_streak[1]

Today == now \div MsPerDay

C6_IdempotentWithinDay ==
    [][ (/\ op' = "updateMyStreak"
         /\ streakEffectPending
         /\ exerciseDoneToday
         /\ ls_my_streak # NoItem
         /\ StoredStreak.lastExerciseDate = Today) =>
            /\ ls_my_streak' = ls_my_streak
            /\ myStreak' = StoredStreak.streak
      ]_vars

\* a second run on the day the streak was counted
C6_Witness ==
    /\ op = "updateMyStreak"
    /\ exerciseDoneToday
    /\ prevStreakData.lastExerciseDate = Today
    /\ prevStreakData.streak >= 1
    /\ ls_my_streak = Item(prevStreakData)
    /\ myStreak = prevStreakData.streak

\* C7: a run with exerciseDoneToday false breaks the stored streak to 0
\* exactly when the streak is above 0 and the last exercise date is 2 or more
\* days before today; with a last date of today or yesterday the record stays.
C7_MissedDayRule ==
    [][ (/\ op' = "updateMyStreak"
         /\ streakEffectPending
         /\ ~exerciseDoneToday) =>
            /\ (/\ StoredStreak.streak > 0
                /\ StoredStreak.lastExerciseDate # EmptyDate
                /\ StoredStreak.lastExerciseDate <= Today - 2)
               <=> (/\ ls_my_streak' # ls_my_streak
                    /\ ls_my_streak'[1].streak = 0)
            /\ StoredStreak.lastExerciseDate \in {Today, Today - 1} =>
                   ls_my_streak' = ls_my_streak
      ]_vars

---------------------------------------------------------------------------
(* Claims about the exercises-today count (SpecApp) *)

\* C8: the exercises-today count never exceeds the number of distinct
\* exercises that were completed.
C8_CountAtMostDistinct ==
    exerciseCount <= Cardinality(actuallyCompleted)

\* C9: the exercises-today count is within 0..10 and is the size of the
\* completed-exercises set, or 10 when the set is larger.
C9_CountClamped ==
    /\ exerciseCount \in 0..10
    /\ exerciseCount = IF Cardinality(completedExercises) > 10
                       THEN 10
                       ELSE Cardinality(completedExercises)

\* the set holds more than ten keys and the count stayed at 10
C9_Witness ==
    /\ Cardinality(completedExercises) = 11
    /\ exerciseCount = 10

---------------------------------------------------------------------------
(* Claims about the resilience score (SpecResilience) *)

\* C10: the resilience score is exerciseCount*10 - stress*50 clamped to
\* [0,100], for every exerciseCount in 0..10 and stress in [0,1]: it lies in
\* 0..100, is 100 for (10, 0) and 0 for (0, 1).
C10_ResilienceFormula ==
    op = "resilienceEffect" =>
        LET v == exerciseCount * 10 - appStressLevel
        IN /\ resilienceScore = IF v < 0 THEN 0 ELSE IF v > 100 THEN 100 ELSE v
           /\ resilienceScore \in 0..100
           /\ (exerciseCount = 10 /\ appStressLevel = 0) => resilienceScore = 100
           /\ (exerciseCount = 0 /\ appStressLevel = StressUnit) =>
                  resilienceScore = 0

\* no exercise and full stress: the negative value was clamped to 0
C10_Witness ==
    /\ op = "resilienceEffect"
    /\ exerciseCount = 0
    /\ appStressLevel = StressUnit
    /\ resilienceScore = 0

---------------------------------------------------------------------------
(* Claims about the persisted resilience series (SpecSeries) *)

\* the series the resilience effect reads
StoredSeries == IF ls_resilience_data = NoItem THEN <<>> ELSE ls_resilience_data[1]

DatesOf(data) == { data[i].date : i \in 1..Len(data) }

\* C11: no two stored records share a date; an update overwrites the record
\* of today where there is one, leaving the others and the length as they
\* were, and appends one record for today where there is none.
C11_OneRecordPerDate ==
    /\ \A i, j \in 1..Len(StoredSeries) :
           i # j => StoredSeries[i].date # StoredSeries[j].date
    /\ op = "resilienceEffect" =>
           /\ \E i \in 1..Len(StoredSeries) :
                  /\ StoredSeries[i].date = Today
                  /\ StoredSeries[i].exercises = exerciseCount
           /\ IF Today \in DatesOf(prevResilienceData)
              THEN /\ Len(StoredSeries) = Len(prevResilienceData)
                   /\ \A i \in 1..Len(StoredSeries) :
                          /\ StoredSeries[i].date = prevResilienceData[i].date
                          /\ StoredSeries[i].date # Today =>
                                 StoredSeries[i] = prevResilienceData[i]
              ELSE /\ DatesOf(StoredSeries) \subseteq
                          DatesOf(prevResilienceData) \cup {Today}
                   /\ Len(prevResilienceData) < 30 =>
                          /\ Len(StoredSeries) = Len(prevResilienceData) + 1
                          /\ SubSeq(StoredSeries, 1, Len(prevResilienceData))
                                 = prevResilienceData

\* the record of today, written with no exercise done, has been overwritten
\* by one with an exercise done; the month of earlier records is as it was
C11_Witness ==
    /\ op = "resilienceEffect"
    /\ Len(StoredSeries) = 30
    /\ Len(prevResilienceData) = 30
    /\ prevResilienceData[30].date = Today
    /\ prevResilienceData[30].exercises = 0
    /\ StoredSeries[30].date = Today
    /\ StoredSeries[30].exercises = 1

\* C12: the stored series never holds more than 30 records; an update keeps
\* the 30 most recent of the dates it had and today, each with its record,
\* and drops only older ones.
C12_SeriesCapped ==
    /\ Len(StoredSeries) <= 30
    /\ op = "resilienceEffect" =>
           LET all == DatesOf(prevResilienceData) \cup {Today}
               kept == DatesOf(StoredSeries)
           IN /\ kept \subseteq all
              /\ Cardinality(kept) = IF Cardinality(all) > 30
                                     THEN 30 ELSE Cardinality(all)
              /\ \A d \in all \ kept : \A e \in kept : d < e
              /\ \A i \in 1..Len(StoredSeries) :
                     StoredSeries[i].date # Today =>
                         \E j \in 1..Len(prevResilienceData) :
                             prevResilienceData[j] = StoredSeries[i]

\* a 31st date arrived: the oldest record is gone, the other 30 are kept
C12_Witness ==
    /\ op = "resilienceEffect"
    /\ Len(prevResilienceData) = 30
    /\ Today \notin DatesOf(prevResilienceData)
    /\ Len(StoredSeries) = 30
    /\ StoredSeries[1] = prevResilienceData[2]
    /\ StoredSeries[30].date = Today

---------------------------------------------------------------------------
(* Claims about the stress estimator (SpecStress) *)

\* C13: calculateStressLevel returns exactly 0.5 for an absent frame, and for
\* every fully populated frame with coordinates in [0,1], a jaw height or a
\* jaw width of 0 included, it returns a number within [0,1].
C13_StressInUnitRange ==
    op = "calculateStressLevel" =>
        /\ probeLandmarks = NoLandmarks =>
               probeResult[1] = [nan |-> FALSE, value |-> One \div 2]
        /\ probeLandmarks # NoLandmarks =>
               /\ ~probeResult[1].nan
               /\ probeResult[1].value >= 0
               /\ probeResult[1].value <= One

---------------------------------------------------------------------------
(* Claims about the stress game (SpecGame) *)

C4_LaunchPrecondition ==
    [][ (op' = "triggerGame") =>
            /\ activeGame = NoGame
            /\ gameSuccess = NoSuccess
            /\ faceVisible
            /\ stressLevel * 10 > 7 * StressUnit
            /\ Len(stressHistory) >= 5
            /\ LET n == Len(stressHistory)
                   total == stressHistory[n] + stressHistory[n - 1]
                              + stressHistory[n - 2] + stressHistory[n - 3]
                              + stressHistory[n - 4]
               IN total * 10 > 7 * StressUnit * 5
      ]_vars

\* a game has just started although an earlier reading was calm: the calm
\* reading had left the last five
C4_Witness ==
    /\ op = "triggerGame"
    /\ activeGame # NoGame
    /\ \E i \in 1..Len(stressHistory) : stressHistory[i] * 10 <= 7 * StressUnit


---------------------------------------------------------------------------
(* Claims about the stress history and the resolution of a game (SpecGame) *)

\* C16: the stress history never holds more than 30 samples: a sample is
\* appended behind the ones held, and when 30 are held the oldest one is
\* dropped for it; nothing but a sample changes the history
C16_HistoryBounded ==
    [][ /\ Len(stressHistory') <= HistoryCap
        /\ sampleCount' = sampleCount + 1 =>
              stressHistory' =
                  IF Len(stressHistory) < HistoryCap
                  THEN Append(stressHistory, stressLevel')
                  ELSE Append(Tail(stressHistory), stressLevel')
        /\ sampleCount' # sampleCount + 1 =>
              stressHistory' \in {stressHistory, <<>>} ]_vars

\* the 31st sample has arrived: the first one, a calm reading, is gone and the
\* second one is now the oldest
C16_Witness ==
    /\ op = "checkStress"
    /\ sampleCount = HistoryCap + 1
    /\ Len(stressHistory) = HistoryCap
    /\ stressHistory[1] = StressUnit \div 5
    /\ stressHistory[2] = (4 * StressUnit) \div 5
    /\ stressHistory[HistoryCap] = stressLevel

\* C18: when the progress of the active game reaches 100% the game resolves
\* with the value requirementsMet has, which is the result of the last run of
\* the game's validator, or false when it has not run since the launch
C18_ResolvesWithLastValidation ==
    [][ /\ (gameProgress' = 100 /\ gameProgress # 100) =>
              /\ op' \in {"progressTick", "gameTimeout"}
              /\ gameSuccess' = <<requirementsMet>>
        /\ op' \in {"progressTick", "gameTimeout"} =>
              /\ gameProgress' = 100
              /\ gameSuccess' = <<requirementsMet>>
              /\ validatorRuns = 0 => gameSuccess' = <<FALSE>>
        /\ (op' = "validateEffect" /\ validatorRuns' # validatorRuns) =>
              requirementsMet' = landmarks[1].meets
        /\ (op' = "validateEffect" /\ validatorRuns = MaxCalls
              /\ activeGame # NoGame /\ landmarks # NoLandmarks) =>
              requirementsMet' = landmarks[1].meets
        /\ requirementsMet' # requirementsMet =>
              \/ op' = "validateEffect"
              \/ op' \in {"triggerGame", "resetGame"} /\ ~requirementsMet'
        /\ op' = "triggerGame" => ~requirementsMet' /\ validatorRuns' = 0
      ]_vars

\* a game has just resolved as won: the last frame its validator saw met the
\* requirement, an earlier one had not
C18_Witness ==
    /\ op = "progressTick"
    /\ gameProgress = 100
    /\ gameSuccess = <<TRUE>>
    /\ validatorRuns = MaxCalls
    /\ landmarks # NoLandmarks
    /\ landmarks[1].meets
    /\ frameCount = MaxFrames

---------------------------------------------------------------------------
(* Claims about sampling and the validators' store (SpecStream) *)

SampleDeadlineMs == 5 * StressCheckMs

\* C17: sampling goes on whatever the rate of the frames.  With a face in every
\* frame from the start of the session, a sample was appended to the history
\* and reported for every five sampling periods that have passed.
C17_SamplingKeepsCadence ==
    (framePeriod > 0 /\ faceVisible)
        => /\ sampleCount >= (now - SessionStart) \div SampleDeadlineMs
           /\ sampleCount > 0 =>
                 /\ stressHistory # <<>>
                 /\ appStressLevel = stressHistory[Len(stressHistory)]

C20_FirstRunReadsEmptyScratch ==
    [][ (op' = "validateEffect" /\ validatorRuns = 0 /\ validatorRuns' = 1)
            => scratch \cap GameStateKeys = {} ]_vars

\* the first run of Jaw Jiggle's validator in a game launched after an earlier
\* game has closed
C20_Witness ==
    /\ op = "validateEffect"
    /\ validatorRuns = 1
    /\ activeGame # NoGame
    /\ activeGame[1].id = "jaw-jiggle"
    /\ lastCloseTime # NoTime
    /\ lastCloseTime < lastLaunchTime
    /\ scratch = {}

---------------------------------------------------------------------------
(* Claims about the end of a game and about frames without a face *)

\* C21: when a game closes after a success the stress estimate goes down (by
\* a fixed decrement, not below 0); when it closes after a failure the
\* estimate stays as it is
C21_SuccessLowersStress ==
    [][ (op' \in {"closeGame", "closeButton"} /\ showModal) =>
            IF gameSuccess = <<TRUE>>
            THEN /\ stressLevel' >= 0
                 /\ stressLevel > 0 => stressLevel' < stressLevel
            ELSE stressLevel' = stressLevel ]_vars

\* C22: a frame without a face sets the success streak to 0
C22_NoFaceCancelsStreak ==
    [][ op' = "onResultsNoFace" => successStreak' = 0 ]_vars

\* C23: a timer scheduled for one game does nothing to a later game.  No timer
\* of an earlier game is pending when a game is launched, every close and
\* reset timer pending during a game was scheduled after its launch, and a
\* close or reset that acts on an active game finds that game resolved.
C23_StaleTimersHarmless ==
    [][ /\ op' = "triggerGame" =>
              /\ closeTimers = {} /\ closeTimers' = {}
              /\ resetTimers = {} /\ resetTimers' = {}
              /\ progressTimerArmedAt = NoTimer
              /\ gameTimerDue = NoTimer
        /\ activeGame' # NoGame =>
              /\ \A d \in closeTimers' : d - ResultDwellMs >= lastLaunchTime'
              /\ \A d \in resetTimers' : d - ResetDelayMs >= lastLaunchTime'
              /\ progressTimerArmedAt' # NoTimer =>
                    progressTimerArmedAt' >= lastLaunchTime'
              /\ gameTimerDue' # NoTimer =>
                    gameTimerDue' >= lastLaunchTime' + DurationMs(activeGame'[1])
        /\ (op' \in {"closeGame", "resetGame"} /\ activeGame # NoGame) =>
              gameSuccess # NoSuccess
      ]_vars

\* a later game has just been launched: the game before it was closed with
\* the Close button, its auto-close fired after that, and nothing is pending
C23_Witness ==
    /\ op = "triggerGame"
    /\ activeGame # NoGame
    /\ lastCloseTime # NoTime
    /\ lastCloseTime < lastLaunchTime
    /\ lastGameEndTime = lastCloseTime
    /\ closeTimers = {}
    /\ resetTimers = {}

---------------------------------------------------------------------------
(* Claims about faults: partial frames, a damaged or full localStorage *)

\* C24: a face result that lacks points a validator reads is handled like a
\* frame without a face: the landmarks handed on are null with faceVisible
\* false, no exception is raised, and streak and feedback stay as they are
C24_PartialFrameAsNoFace ==
    [][ op' = "onResultsPartial" =>
            /\ landmarks' = NoLandmarks
            /\ ~faceVisible'
            /\ raised' = raised
            /\ UNCHANGED <<successStreak, feedback, showFeedback,
                           lastExerciseResult>> ]_vars

\* ---------------------------------------------------------------------------
\* The progress tab over a localStorage that may be damaged or full: the
\* stored series and the stored streak record may fail to parse, and setItem
\* may throw for the whole session.
StoredStreakBefore == [streak |-> 2, lastExerciseDate |-> StartDay - 1]

InitFaults ==
    /\ now = SessionStart
    /\ op = "init"
    /\ ls_last_exercise_date = NoItem
    /\ ls_my_streak \in { NoItem, Item(StoredStreakBefore) }
    /\ ls_resilience_data \in { NoItem, Item(PastSeries(2)) }
    /\ ls_damage \in SUBSET {ResilienceCorrupt, ResilienceNotArray,
                              StreakCorrupt}
    /\ ls_damage \cap ResilienceDamage # {} => ls_resilience_data # NoItem
    /\ ResilienceDamage \subseteq ls_damage => FALSE
    /\ StreakCorrupt \in ls_damage => ls_my_streak # NoItem
    /\ storeFaulty \in BOOLEAN
    /\ raised = {}
    /\ consoleErrors = {}
    /\ appStressLevel = 0
    /\ resilienceScore = 0
    /\ weeklyData = <<>>
    /\ resilienceEffectPending = FALSE
    /\ prevResilienceData = <<>>
    /\ exerciseCount = 0
    /\ exerciseDoneToday = FALSE
    /\ currentExercise = ""
    /\ completedExercises = {}
    /\ activeTab = "exercise"
    /\ myStreak = 0
    /\ streakEffectPending = FALSE
    /\ prevStreakData = DefaultStreakData
    /\ selectedExercise = InitialExercise
    /\ successStreak = 0
    /\ lastExerciseResult = NoResult
    /\ feedback = NoFeedback
    /\ showFeedback = FALSE
    /\ resultEffectPending = FALSE
    /\ streakChanged = FALSE
    /\ handlerExercise = InitialExercise
    /\ streakCompleteCalls = 0
    /\ successRun = 0
    /\ streakBefore = 0
    /\ actuallyCompleted = {}
    /\ GameInit(now)
    /\ ProbeIdle
    /\ NoFrameStream

NextFaults ==
    \/ markCompleteButton
    \/ \E tab \in {"exercise", "progress"} : setActiveTab(tab)
    \/ resilienceEffect
    \/ updateMyStreak
    \/ AppReload
    \/ ClockAdvance

SpecFaults == InitFaults /\ [][NextFaults]_vars

\* ---------------------------------------------------------------------------
\* Claims about a damaged or full localStorage

TodaysRecord ==
    [date |-> Today, exercises |-> exerciseCount, stress |-> appStressLevel,
     resilience |-> ResilienceOf(exerciseCount, appStressLevel)]

\* C25: when the stored resilience series does not parse or is not an array,
\* the resilience update raises no exception and (the write succeeding)
\* leaves a stored series that holds exactly the record of today.
C25_CorruptSeriesStartsEmpty ==
    [][(/\ op' = "resilienceEffect"
        /\ ls_resilience_data # NoItem
        /\ ls_damage \cap ResilienceDamage # {}
        /\ ~storeFaulty)
       => /\ raised' = raised
          /\ prevResilienceData' = <<>>
          /\ ls_resilience_data' = Item(<<TodaysRecord>>)
          /\ ls_damage' \cap ResilienceDamage = {} ]_vars

\* an update has replaced a stored string that did not parse (the catch block
\* has logged it): the stored series is the single record of today, with one
\* exercise done
C25_Witness ==
    /\ op = "resilienceEffect"
    /\ raised = {}
    /\ ~storeFaulty
    /\ prevResilienceData = <<>>
    /\ ResilienceParseError \in consoleErrors
    /\ ls_damage \cap ResilienceDamage = {}
    /\ exerciseCount = 1
    /\ ls_resilience_data = Item(<<TodaysRecord>>)
    /\ Len(weeklyData) = ChartDays

\* C26: when the stored streak record does not parse, updateMyStreak raises
\* no exception and goes on from the default record: run with an exercise
\* done today (the write succeeding) it stores and shows a streak of 1 for
\* today.
C26_CorruptStreakStartsDefault ==
    [][(/\ op' = "updateMyStreak"
        /\ ls_my_streak # NoItem
        /\ StreakCorrupt \in ls_damage
        /\ exerciseDoneToday
        /\ ~storeFaulty)
       => /\ raised' = raised
          /\ myStreak' = 1
          /\ ls_my_streak' = Item([streak |-> 1, lastExerciseDate |-> Today]) ]_vars

\* C27: a write that throws is ignored. No handler is left by an exception,
\* and the state in memory takes its new value: exercise done today, the
\* resilience score and the chart's series, the streak shown.
C27_FailedWriteIgnored ==
    [][storeFaulty =>
          /\ raised' = raised
          /\ op' = "markCompleteButton" => exerciseDoneToday'
          /\ op' = "resilienceEffect" =>
                 /\ resilienceScore' = ResilienceOf(exerciseCount, appStressLevel)
                 /\ Len(weeklyData') = ChartDays
          /\ (op' = "updateMyStreak" /\ StreakCorrupt \notin ls_damage) =>
                 myStreak' =
                     (IF exerciseDoneToday
                      THEN StreakDataAfterDone(prevStreakData', now)
                      ELSE StreakDataAfterMissed(prevStreakData', now)).streak ]_vars

\* ---------------------------------------------------------------------------
\* Claims about the wink validator

LeftOpening ==
    Abs(probeLandmarks[1].LEFT_EYE_TOP.y - probeLandmarks[1].LEFT_EYE_BOTTOM.y)
RightOpening ==
    Abs(probeLandmarks[1].RIGHT_EYE_TOP.y - probeLandmarks[1].RIGHT_EYE_BOTTOM.y)
SmallerOpening == IF LeftOpening < RightOpening THEN LeftOpening ELSE RightOpening
LargerOpening == IF LeftOpening < RightOpening THEN RightOpening ELSE LeftOpening

\* C28: eyeWinker returns true only when the smaller eye opening is below
\* 0.01, the larger above 0.02 and they differ by more than 0.02; with both
\* eyes open or both closed it returns false, however much they differ.
C28_WinkNeedsOneClosedOneOpen ==
    (op = "eyeWinker" /\ probeResult # <<>>) =>
        /\ probeResult[1] \in BOOLEAN
        /\ probeResult[1] =>
               /\ SmallerOpening < EyeClosedBelow
               /\ LargerOpening > EyeOpenAbove
               /\ LargerOpening - SmallerOpening > WinkAsymmetry
        /\ SmallerOpening > EyeOpenAbove => ~probeResult[1]
        /\ LargerOpening < EyeClosedBelow => ~probeResult[1]
        /\ SmallerOpening >= EyeClosedBelow => ~probeResult[1]
        /\ LargerOpening <= EyeOpenAbove => ~probeResult[1]

\* both eyes open, one ten times as wide as the other: not a wink
C28_Witness ==
    /\ op = "eyeWinker"
    /\ SmallerOpening = 300
    /\ LargerOpening = 3 * MaxEyeY
    /\ probeResult = <<FALSE>>

\* ---------------------------------------------------------------------------
\* Claims about the course of a game

\* a game that is not resolved twenty ticks after its duration has run out
ResolveGraceMs == 20 * ProgressTickMs

\* C29: every launched game is resolved, however the frames come and however
\* often requirementsMet changes: an active game has a result once its
\* duration and a few ticks of the progress interval have passed, and a game
\* with a result has the timer pending that returns the session to Idle.
C29_GameTerminates ==
    activeGame # NoGame =>
        IF gameSuccess = NoSuccess
        THEN now <= lastLaunchTime + DurationMs(activeGame[1]) + ResolveGraceMs
        ELSE closeTimers \cup resetTimers # {}

C31_ResultFinal ==
    [][(activeGame # NoGame /\ gameSuccess # NoSuccess) =>
           /\ op' \notin {"progressTick", "gameTimeout"}
           /\ gameSuccess' = gameSuccess \/ activeGame' = NoGame ]_vars

\* C32: in a Jaw Jiggle game the jiggle count accumulates over the validator
\* runs of the game.  Stated for the game's second run: the first run has
\* stored the chin's position, so a second run that sees the chin more than
\* 0.02 away from it stores a count of 1; and a count once stored stays
\* stored while the game is active.
C32_JawJiggleCounts ==
    [][/\ (/\ op' = "validateEffect"
           /\ activeGame # NoGame
           /\ activeGame[1].id = "jaw-jiggle"
           /\ validatorRuns = 1 /\ validatorRuns' = 2
           /\ chinMoved')
          => /\ "prevJawPos" \in scratch
             /\ "jawJiggleCount" \in scratch'
       /\ (/\ activeGame # NoGame /\ activeGame' = activeGame
           /\ activeGame[1].id = "jaw-jiggle"
           /\ "jawJiggleCount" \in scratch)
          => "jawJiggleCount" \in scratch' ]_vars

\* ---------------------------------------------------------------------------
\* Claims about the streak and the series over days and reloads

\* C33: the day streak grows only on days with a completed exercise.  An
\* update that stores a record dated today finds an exercise completed today:
\* last_exercise_date, which handleExerciseComplete writes at each
\* completion, is today's date.
C33_StreakNeedsCompletionToday ==
    [][(/\ op' = "updateMyStreak"
        /\ ls_my_streak' # ls_my_streak
        /\ ls_my_streak'[1].lastExerciseDate = Today)
       => ls_last_exercise_date = Item(Today) ]_vars

\* C34: within a calendar day the exercise count in that day's stored record
\* never goes down: a step that leaves a record for a date with a record
\* already stored keeps or raises its exercise count.
C34_DayCountNeverDecreases ==
    [][\A i \in 1..Len(StoredSeries) :
          \A j \in 1..Len(StoredSeries') :
              (/\ StoredSeries[i].date = Today
               /\ StoredSeries'[j].date = Today
               /\ now' \div MsPerDay = Today)
              => StoredSeries'[j].exercises >= StoredSeries[i].exercises ]_vars

\* C35: a stored streak record has a streak that is a natural number, 0
\* exactly when the last exercise date is empty; and an update that runs with
\* exerciseDoneToday true on a readable record (or none), its write
\* succeeding, leaves a stored record with a streak of at least 1 dated today.
StoredStreakWellFormed ==
    ls_my_streak # NoItem =>
        /\ ls_my_streak[1].streak \in Nat
        /\ ls_my_streak[1].streak = 0
               <=> ls_my_streak[1].lastExerciseDate = EmptyDate

C35_StreakRecordShape ==
    [][/\ StoredStreakWellFormed
       /\ StoredStreakWellFormed'
       /\ (/\ op' = "updateMyStreak"
           /\ exerciseDoneToday
           /\ ls_my_streak = NoItem \/ StreakCorrupt \notin ls_damage
           /\ ~storeFaulty)
          => /\ ls_my_streak' # NoItem
             /\ ls_my_streak'[1].streak >= 1
             /\ ls_my_streak'[1].lastExerciseDate = Today ]_vars

\* a streak of 2 that ended yesterday has been continued: the record stored
\* is a streak of 3 dated today
C35_Witness ==
    /\ op = "updateMyStreak"
    /\ exerciseDoneToday
    /\ ~storeFaulty
    /\ StreakCorrupt \notin ls_damage
    /\ prevStreakData = StoredStreakBefore
    /\ ls_my_streak = Item([streak |-> 3, lastExerciseDate |-> Today])
    /\ myStreak = 3

\* C36: getLastNDays(data, 7) returns exactly 7 records in ascending order of
\* date, for a series with fewer than 7 records too: the series the effect
\* hands to the chart has 7 records and each is dated after the one before.
C36_ChartSeriesAscending ==
    op = "resilienceEffect" /\ ~storeFaulty =>
        /\ Len(weeklyData) = ChartDays
        /\ \A i \in 1..(Len(weeklyData) - 1) :
               weeklyData[i].date < weeklyData[i + 1].date

=============================================================================
